---- MODULE Spec2Model ----
(***************************************************************************)
(* A model of the grid ("Map") of aoclib and of the two searches over it:  *)
(* the breadth-first reachability walk (Map::reachable_from_ctx) and the   *)
(* shortest-path search (Map::navigate_ctx).                               *)
(*                                                                         *)
(* A Map is the record [tiles, width, height, offset] of map.rs.  A Point  *)
(* is the record [x, y].  The tile type of the modelled grids is           *)
(* Traversable itself, whose context conversion is the blanket one         *)
(* (context_conversions.rs): every assignment of a classification to the   *)
(* points of a grid is one grid of the model.                               *)
(*                                                                         *)
(* Further sections model Direction, the day 9 test of the searches,       *)
(* website::get_input with its throttle file, and the LinkedList of        *)
(* data_structures with its Cursor.                                        *)
(***************************************************************************)
EXTENDS Integers, Sequences, FiniteSets, TLC

VARIABLES
    map,                \* the Map: [tiles, width, height, offset]
    tile_type,          \* the type parameter Tile of the Map: "Traversable", "Bool", "bool",
                        \* "TwoDigits"
    err,                \* the MapConversionErr of a failed try_from, <<>> when there is none
    op,                 \* the last call made: "none", a constructor, an operation or a search
    pc,                 \* where that call is: "idle", "running", "returned", "panicked"
    start,              \* reachable_from_ctx: the `point` argument
    visited,            \* reachable_from_ctx: the bitvec, one bit per tile
    queue,              \* reachable_from_ctx: the VecDeque of points
    visits,             \* reachable_from_ctx: the points handed to `visit`, in call order
    halted,             \* reachable_from_ctx: `visit` has returned true
    from,               \* navigate_ctx: the `from` argument
    to,                 \* navigate_ctx: the `to` argument
    open_set,           \* navigate_ctx: the BinaryHeap of AStarNode
    came_from,          \* navigate_ctx: HashMap position -> (direction, predecessor)
    cheapest_path_cost, \* navigate_ctx: HashMap position -> gscore
    total_cost_guess,   \* navigate_ctx: HashMap position -> fscore
    path,               \* navigate_ctx: the returned Option, <<>> = None, <<p>> = Some(p)
    args,               \* translate, try_from, adjacencies, edge, project: the arguments of
                        \* the call
    iter,               \* edge, project: the iterator the call returned, <<>> when there is none
    front,              \* the points the iterator has returned from next(), in call order
    back,               \* the points the iterator has returned from next_back(), in call order
    low_points,         \* day 9 test: the Vec read_input returns next to the map
    region_sizes,       \* day 9 test: the Vec of the sizes counted so far
    basin_size_product, \* day 9 test: the product the test prints, 0 before it is computed
    now,                \* website: OffsetDateTime::now_utc(), in seconds
    input_files,        \* website: the days whose input file exists
    throttle_file,      \* website: the time in the throttle file, <<>> when there is no file
    requests,           \* website: the times at which a request was sent to the server
    result,             \* website: what the last get_input returned
    nodes,              \* linked list: the heap, node address -> [item, next, prev]
    ll,                 \* linked list: the LinkedList [front, back, len]
    cursor,             \* linked list: the `ptr` of the live Cursor, <<>> when there is none
    popped,             \* linked list: the Option the last pop or take returned
    facing,             \* a Direction of the caller, "Err" after a failed try_from
    turns,              \* the turn_right, turn_left and reverse calls made on it, in order
    delta               \* the Point last passed to or returned by deltas / try_from

mapVars == <<map, tile_type, err>>
bfsVars == <<start, visited, queue, visits, halted>>
navVars == <<from, to, open_set, came_from, cheapest_path_cost, total_cost_guess, path>>
iterVars == <<args, iter, front, back>>
testVars == <<low_points, region_sizes, basin_size_product>>
webVars == <<now, input_files, throttle_file, requests, result>>
listVars == <<nodes, ll, cursor, popped>>
dirVars == <<facing, turns, delta>>
otherVars == <<testVars, webVars, listVars, dirVars>>
vars == <<map, tile_type, err, op, pc, start, visited, queue, visits, halted,
          from, to, open_set, came_from, cheapest_path_cost, total_cost_guess, path,
          args, iter, front, back, low_points, region_sizes, basin_size_product,
          now, input_files, throttle_file, requests, result, nodes, ll, cursor, popped,
          facing, turns, delta>>

(***************************************************************************)
(* Bounds of the model.                                                    *)
(***************************************************************************)
\* a grid of the model has at most MaxArea tiles
MaxArea == 6
\* at most MaxBlocked tiles of a grid are not Free
MaxBlocked == 2
\* a grid's offset is (0, 0), (MaxOff, MaxOff) or (-MaxOff, -MaxOff)
MaxOff == 1

(***************************************************************************)
(* Machine integers.  TLC's integers are 32 bits wide, so the 64-bit usize *)
(* and the 32-bit i32 of the program are modelled at a quarter of their    *)
(* width; every coordinate of the model is far inside the narrow range.    *)
(***************************************************************************)
UsizeModulus == 2^16
I32Modulus == 2^8

\* `n as usize`
AsUsize(n) == n % UsizeModulus

\* `n as i32`
AsI32(n) ==
    LET m == n % I32Modulus
    IN  IF m >= I32Modulus \div 2 THEN m - I32Modulus ELSE m

(***************************************************************************)
(* Point and Direction.                                                    *)
(***************************************************************************)
Point(px, py) == [x |-> px, y |-> py]

\* Point::default()
PointDefault == Point(0, 0)

\* Point + Point, componentwise
PointAdd(p, q) == Point(p.x + q.x, p.y + q.y)

\* Point - Point, componentwise
PointSub(p, q) == Point(p.x - q.x, p.y - q.y)

Abs(n) == IF n < 0 THEN -n ELSE n

\* Point::manhattan
manhattan(p) == Abs(p.x) + Abs(p.y)

\* Ord for Point: -1 less, 0 equal, 1 greater; x is compared first, then y
PointCmp(p, q) ==
    IF p.x < q.x THEN -1
    ELSE IF p.x > q.x THEN 1
    ELSE IF p.y < q.y THEN -1
    ELSE IF p.y > q.y THEN 1
    ELSE 0

Direction == {"Right", "Left", "Up", "Down"}

\* deltas with Left and Right exchanged
deltasMirrored(direction) ==
    CASE direction = "Up" -> Point(0, 1)
      [] direction = "Down" -> Point(0, -1)
      [] direction = "Right" -> Point(-1, 0)
      [] direction = "Left" -> Point(1, 0)

\* Direction::deltas, as the Point that `point + direction` adds
deltas(direction) ==
    CASE direction = "Up" -> Point(0, 1)
      [] direction = "Down" -> Point(0, -1)
      [] direction = "Right" -> Point(1, 0)
      [] direction = "Left" -> Point(-1, 0)

\* Direction::iter: the order in which the four directions are tried
DirectionIter == <<"Up", "Down", "Left", "Right">>

\* `point + direction`
Step(p, direction) == PointAdd(p, deltas(direction))

(***************************************************************************)
(* Traversable and the context conversion.                                 *)
(***************************************************************************)
Traversable == {"Obstructed", "Free", "Halt"}

\* a conversion of Digit in which no digit is a wall
DigitCtxIntoAllFree(tile, position, context) == "Free"

\* ContextInto<Traversable> for Digit, of the day 9 test: 9 is a wall
DigitCtxInto(tile, position, context) == IF tile = 9 THEN "Obstructed" ELSE "Free"

\* ContextInto<Traversable>::ctx_into: the implementation of the tile type of
\* the grid, which is the blanket one for a tile that is a Traversable
ctx_into(tile, position, context) ==
    IF tile_type = "Digit" THEN DigitCtxInto(tile, position, context) ELSE tile

(***************************************************************************)
(* Map: bounds, indexing, adjacency.                                       *)
(***************************************************************************)
low_x(self) == self.offset.x
high_x(self) == self.offset.x + AsI32(self.width) - 1
low_y(self) == self.offset.y
high_y(self) == self.offset.y + AsI32(self.height) - 1

in_bounds(self, p) ==
    /\ p.x >= low_x(self)
    /\ p.y >= low_y(self)
    /\ p.x <= high_x(self)
    /\ p.y <= high_y(self)

\* point2index with the rows laid out height apart instead of width apart
point2indexByHeight(self, x, y) ==
    LET x1 == AsUsize(AsI32(x) - self.offset.x)
        y1 == AsUsize(AsI32(y) - self.offset.y)
    IN  AsUsize(x1 + (y1 * self.height))

\* Map::point2index(x: usize, y: usize)
point2index(self, x, y) ==
    LET x1 == AsUsize(AsI32(x) - self.offset.x)
        y1 == AsUsize(AsI32(y) - self.offset.y)
    IN  AsUsize(x1 + (y1 * self.width))

\* Map::index2point(idx); idx is zero-based as in the program
index2point(self, i) ==
    PointAdd(Point(AsI32(i % self.width), AsI32(i \div self.width)), self.offset)

\* the closure `idx` of reachable_from_ctx
idx(self, p) == point2index(self, AsUsize(p.x), AsUsize(p.y))

\* the assertion of Index<Point>: "point must be in the positive quadrant"
PositiveQuadrant(p) == p.x >= 0 /\ p.y >= 0

\* Vec indexing: TRUE when tiles[i] (zero-based) exists
InRange(self, i) == i < Len(self.tiles)

\* Index<Point> panics when the assertion fails or the buffer index is out of range
IndexPanics(self, p) == ~PositiveQuadrant(p) \/ ~InRange(self, idx(self, p))

\* self[point], defined when IndexPanics is false
TileAt(self, p) == self.tiles[idx(self, p) + 1]

\* orthogonal_adjacencies without the in-bounds filter
orthogonal_adjacenciesUnfiltered(self, p) == [i \in 1..4 |-> Step(p, DirectionIter[i])]

\* Map::orthogonal_adjacencies: in-bounds neighbours in Direction::iter order
orthogonal_adjacencies(self, p) ==
    SelectSeq([i \in 1..4 |-> Step(p, DirectionIter[i])], LAMBDA q : in_bounds(self, q))

\* Map::procedural_offset: the procedure is called on index2point of each index
procedural_offset(off, w, h, procedure) ==
    LET area == w * h
        shell == [tiles |-> <<>>, width |-> w, height |-> h, offset |-> off]
    IN  [shell EXCEPT !.tiles = [i \in 1..area |-> procedure[index2point(shell, i - 1)]]]

\* the points of a map, by bounds
PointsOf(self) ==
    { Point(px, py) : px \in low_x(self)..high_x(self), py \in low_y(self)..high_y(self) }

(***************************************************************************)
(* Initial states: any grid that procedural_offset can build within the    *)
(* bounds, no call in progress.                                            *)
(***************************************************************************)
Shapes == { wh \in (1..MaxArea) \X (1..MaxArea) : wh[1] * wh[2] <= MaxArea }
Offsets == { Point(o, o) : o \in {-MaxOff, 0, MaxOff} }
Rectangle(off, w, h) ==
    { Point(px, py) : px \in off.x..(off.x + w - 1), py \in off.y..(off.y + h - 1) }
Procedures(off, w, h) ==
    { procedure \in [Rectangle(off, w, h) -> Traversable] :
        Cardinality({ p \in Rectangle(off, w, h) : procedure[p] /= "Free" }) <= MaxBlocked }

BfsIdle ==
    /\ start = PointDefault
    /\ visited = <<>>
    /\ queue = <<>>
    /\ visits = <<>>
    /\ halted = FALSE

NavIdle ==
    /\ from = PointDefault
    /\ to = PointDefault
    /\ open_set = {}
    /\ came_from = <<>>
    /\ cheapest_path_cost = <<>>
    /\ total_cost_guess = <<>>
    /\ path = <<>>

IterIdle ==
    /\ args = <<>>
    /\ iter = <<>>
    /\ front = <<>>
    /\ back = <<>>

\* Option::None of a NodePtr; the addresses of nodes are 1, 2, ...
None == 0

TestIdle ==
    /\ low_points = <<>>
    /\ region_sizes = <<>>
    /\ basin_size_product = 0

WebIdle ==
    /\ now = 0
    /\ input_files = {}
    /\ throttle_file = <<>>
    /\ requests = <<>>
    /\ result = "none"

\* LinkedList::new, and no cursor
ListIdle ==
    /\ nodes = <<>>
    /\ ll = [front |-> None, back |-> None, len |-> 0]
    /\ cursor = <<>>
    /\ popped = <<>>

\* Direction::default, and no call made
DirIdle ==
    /\ facing = "Up"
    /\ turns = <<>>
    /\ delta = <<>>

OtherIdle == TestIdle /\ WebIdle /\ ListIdle /\ DirIdle

Init ==
    /\ \E wh \in Shapes, off \in Offsets :
         \E procedure \in Procedures(off, wh[1], wh[2]) :
            map = procedural_offset(off, wh[1], wh[2], procedure)
    /\ tile_type = "Traversable"
    /\ err = <<>>
    /\ op = "none"
    /\ pc = "idle"
    /\ BfsIdle
    /\ NavIdle
    /\ IterIdle
    /\ OtherIdle

(***************************************************************************)
(* Map::reachable_from_ctx                                                 *)
(***************************************************************************)
\* lines 838-842: the call, up to the first test of the loop
ReachableFromCtx ==
    /\ pc = "idle"
    /\ \E p \in PointsOf(map) :
         /\ start' = p
         /\ queue' = <<p>>
    /\ visited' = [i \in 1..Len(map.tiles) |-> FALSE]
    /\ visits' = <<>>
    /\ halted' = FALSE
    /\ op' = "reachable_from_ctx"
    /\ pc' = "running"
    /\ UNCHANGED <<mapVars, navVars, iterVars, otherVars>>

\* the loop without its `break`
AfterVisitNoBreak(stop) == "running"

\* line 858-860: what the loop does after `visit` returned `stop`
AfterVisit(stop) == IF stop THEN "returned" ELSE "running"

\* lines 863-867: the neighbours pushed after visiting a Free point
Expand(self, p, vis) ==
    SelectSeq(orthogonal_adjacencies(self, p), LAMBDA n : ~vis[idx(self, n) + 1])

\* push_front in place of push_back
EnqueueFront(scheduled, new) == new \o scheduled

\* line 865: push_back, the new points go behind the scheduled ones
Enqueue(scheduled, new) == scheduled \o new

\* the loop without the test of the visited bit
AlreadyVisitedIgnored(vis, index) == FALSE

\* lines 848-850: the point has been dequeued before
AlreadyVisited(vis, index) == vis[index + 1]

\* line 862: only a Free tile is expanded
Expands(traversable) == traversable = "Free"

\* lines 854-856: an Obstructed tile is neither visited nor expanded
Skips(traversable) == traversable = "Obstructed"

\* lines 844-869: one iteration of the loop body, for a dequeued point
BfsStep ==
    /\ op = "reachable_from_ctx"
    /\ pc = "running"
    /\ queue /= <<>>
    /\ LET p == Head(queue)
           rest == Tail(queue)
           index == idx(map, p)
       IN
       IF index >= Len(visited)
       THEN \* visited[index] out of range
            /\ pc' = "panicked"
            /\ queue' = rest
            /\ UNCHANGED <<visited, visits, halted>>
       ELSE IF AlreadyVisited(visited, index)
       THEN \* scheduled more than once: continue
            /\ queue' = rest
            /\ UNCHANGED <<pc, visited, visits, halted>>
       ELSE
       LET vis == [visited EXCEPT ![index + 1] = TRUE]
       IN
       IF IndexPanics(map, p)
       THEN /\ pc' = "panicked"
            /\ queue' = rest
            /\ visited' = vis
            /\ UNCHANGED <<visits, halted>>
       ELSE
       LET traversable == ctx_into(TileAt(map, p), p, <<>>)
       IN
       IF Skips(traversable)
       THEN /\ queue' = rest
            /\ visited' = vis
            /\ UNCHANGED <<pc, visits, halted>>
       ELSE \E stop \in BOOLEAN :
            /\ visits' = Append(visits, p)
            /\ visited' = vis
            /\ halted' = stop
            /\ pc' = AfterVisit(stop)
            /\ queue' = IF ~stop /\ Expands(traversable)
                        THEN Enqueue(rest, Expand(map, p, vis))
                        ELSE rest
    /\ UNCHANGED <<mapVars, op, start, navVars, iterVars, otherVars>>

\* line 844: pop_front returns None, the loop ends and the call returns
BfsReturn ==
    /\ op = "reachable_from_ctx"
    /\ pc = "running"
    /\ queue = <<>>
    /\ pc' = "returned"
    /\ UNCHANGED <<mapVars, op, bfsVars, navVars, iterVars, otherVars>>

NextBfs == ReachableFromCtx \/ BfsStep \/ BfsReturn

SpecBfs == Init /\ [][NextBfs]_vars

(***************************************************************************)
(* Map::navigate_ctx                                                       *)
(***************************************************************************)
\* u32::MAX at the model's width: the cost of a position with no recorded cost
U32Max == UsizeModulus - 1

AStarNode(c, p) == [cost |-> c, position |-> p]

\* Ord for AStarNode: costs compared flipped, then positions
AStarNodeCmp(a, b) ==
    IF b.cost < a.cost THEN -1
    ELSE IF b.cost > a.cost THEN 1
    ELSE PointCmp(a.position, b.position)

\* BinaryHeap::pop: the greatest node of the heap
HeapPop(heap) == CHOOSE n \in heap : \A m \in heap : AStarNodeCmp(n, m) >= 0

\* HashMap::insert
MapInsert(f, k, v) == (k :> v) @@ f

\* HashMap::remove, the map that is left
MapRemove(f, k) == [j \in (DOMAIN f) \ {k} |-> f[j]]

\* a match that relaxes the Obstructed tiles too
RelaxedAlways(traversable) == TRUE

\* line 922: the classifications whose tiles are relaxed
Relaxed(traversable) == traversable \in {"Free", "Halt"}

\* a comparison that takes every tentative cost for an improvement
ImprovesAlways(tentative, costs, neighbor) == TRUE

\* lines 924-929: the tentative cost improves on the recorded one
Improves(tentative, costs, neighbor) ==
    tentative < (IF neighbor \in DOMAIN costs THEN costs[neighbor] ELSE U32Max)

\* lines 941-946: push unless a node of the heap already has the position
PushUnlessQueued(heap, node) ==
    IF \E elem \in heap : elem.position = node.position THEN heap ELSE heap \cup {node}

\* lines 915-950: the loop over the directions from the i-th on, for the popped
\* node; st holds the collections and whether an index has panicked
RECURSIVE Relax(_, _, _, _, _)
Relax(self, goal, node, i, st) ==
    IF i > Len(DirectionIter) THEN st
    ELSE
    LET direction == DirectionIter[i]
        neighbor == Step(node.position, direction)
    IN
    IF ~in_bounds(self, neighbor) THEN Relax(self, goal, node, i + 1, st)
    ELSE IF IndexPanics(self, neighbor) THEN [st EXCEPT !.panicked = TRUE]
    ELSE IF ~Relaxed(ctx_into(TileAt(self, neighbor), neighbor, <<>>))
    THEN Relax(self, goal, node, i + 1, st)
    ELSE
    LET tentative_cheapest_path_cost == node.cost + 1
    IN
    IF ~Improves(tentative_cheapest_path_cost, st.cheapest_path_cost, neighbor)
    THEN Relax(self, goal, node, i + 1, st)
    ELSE Relax(self, goal, node, i + 1,
            [ panicked |-> FALSE,
              came_from |-> MapInsert(st.came_from, neighbor, <<direction, node.position>>),
              cheapest_path_cost |->
                  MapInsert(st.cheapest_path_cost, neighbor, tentative_cheapest_path_cost),
              total_cost_guess |->
                  MapInsert(st.total_cost_guess, neighbor,
                            tentative_cheapest_path_cost + manhattan(PointSub(goal, neighbor))),
              open_set |->
                  PushUnlessQueued(st.open_set,
                                   AStarNode(tentative_cheapest_path_cost, neighbor)) ])

\* lines 904-909: walk came_from backwards from `current`, removing the entries
\* walked; the result is the path in push order (goal first) and what is left
RECURSIVE WalkBack(_, _, _)
WalkBack(came, current, acc) ==
    IF current \in DOMAIN came
    THEN WalkBack(MapRemove(came, current), came[current][2], Append(acc, came[current][1]))
    ELSE [path |-> acc, came_from |-> came]

\* Vec::reverse
Reverse(s) == [i \in 1..Len(s) |-> s[Len(s) + 1 - i]]

\* lines 880-900: the call, up to the first test of the loop
NavigateCtx ==
    /\ pc = "idle"
    /\ \E f \in PointsOf(map), t \in PointsOf(map) :
         /\ from' = f
         /\ to' = t
         /\ open_set' = {AStarNode(0, f)}
         /\ cheapest_path_cost' = MapInsert(<<>>, f, 0)
         /\ total_cost_guess' = MapInsert(<<>>, f, manhattan(PointSub(t, f)))
    /\ came_from' = <<>>
    /\ path' = <<>>
    /\ op' = "navigate_ctx"
    /\ pc' = "running"
    /\ UNCHANGED <<mapVars, bfsVars, iterVars, otherVars>>

\* lines 902-951: one iteration of the loop, for the popped node
NavStep ==
    /\ op = "navigate_ctx"
    /\ pc = "running"
    /\ open_set /= {}
    /\ LET node == HeapPop(open_set)
           rest == open_set \ {node}
       IN
       IF node.position = to
       THEN LET walk == WalkBack(came_from, node.position, <<>>)
            IN  /\ path' = <<Reverse(walk.path)>>
                /\ came_from' = walk.came_from
                /\ open_set' = rest
                /\ pc' = "returned"
                /\ UNCHANGED <<cheapest_path_cost, total_cost_guess>>
       ELSE LET st == Relax(map, to, node, 1,
                            [ panicked |-> FALSE,
                              came_from |-> came_from,
                              cheapest_path_cost |-> cheapest_path_cost,
                              total_cost_guess |-> total_cost_guess,
                              open_set |-> rest ])
            IN  /\ came_from' = st.came_from
                /\ cheapest_path_cost' = st.cheapest_path_cost
                /\ total_cost_guess' = st.total_cost_guess
                /\ open_set' = st.open_set
                /\ pc' = IF st.panicked THEN "panicked" ELSE "running"
                /\ UNCHANGED path
    /\ UNCHANGED <<mapVars, op, from, to, bfsVars, iterVars, otherVars>>

\* lines 902, 953: pop returns None, the loop ends and the call returns None
NavReturnNone ==
    /\ op = "navigate_ctx"
    /\ pc = "running"
    /\ open_set = {}
    /\ path' = <<>>
    /\ pc' = "returned"
    /\ UNCHANGED <<mapVars, op, from, to, open_set, came_from, cheapest_path_cost,
                   total_cost_guess, bfsVars, iterVars, otherVars>>

NextNav == NavigateCtx \/ NavStep \/ NavReturnNone

SpecNav == Init /\ [][NextNav]_vars

\* both searches, on every grid of the bounds
Next == NextBfs \/ NextNav

Spec == Init /\ [][Next]_vars

\* the grids on which the searches are followed to their end have at most
\* MaxFairArea tiles
MaxFairArea == 4

\* a grid of that size, at the origin or off into the negative quadrant
InitFair ==
    /\ Init
    /\ map.width * map.height <= MaxFairArea
    /\ map.offset \in {PointDefault, Point(-MaxOff, -MaxOff)}

\* the loops are kept running: a call is made on the caller's thread, and an
\* iteration that can be made is made
Fairness == WF_vars(BfsStep \/ BfsReturn) /\ WF_vars(NavStep \/ NavReturnNone)

\* both searches, run to their end
SpecFair == InitFair /\ [][Next]_vars /\ Fairness

(***************************************************************************)
(* Map: construction and transformation.  The tile type is tile::Bool,     *)
(* which convert_tile_type turns into bool and back.                       *)
(***************************************************************************)
\* tile::Bool
Bool == {"True", "False"}

\* the values of a tile type
TilesOf(ty) == IF ty = "Bool" THEN Bool ELSE {"true", "false"}

\* Default::default of the tile type: Bool::False, false
TileDefault(ty) == IF ty = "Bool" THEN "False" ELSE "false"

\* From<Bool> for bool and From<bool> for Bool
TileInto(tile) ==
    CASE tile = "True" -> "true"
      [] tile = "False" -> "false"
      [] tile = "true" -> "True"
      [] tile = "false" -> "False"

\* the tile type convert_tile_type converts to
NewTile(ty) == IF ty = "Bool" THEN "bool" ELSE "Bool"

\* DisplayWidth for Bool
BoolDisplayWidth == 1

\* FromStr for Bool: "#" is True, "." is False, anything else is an error
BoolFromStr(chunk) ==
    IF chunk = <<"#">> THEN <<"True">>
    ELSE IF chunk = <<".">> THEN <<"False">>
    ELSE <<>>

\* DisplayWidth for TwoDigits
TwoDigitsDisplayWidth == 3

\* FromStr for TwoDigits, on a text of spaces and the digit 1: the whole chunk
\* is one space, an optional second space, then one or two digits; the tile is
\* the number the digits spell
TwoDigitsFromStr(chunk) ==
    IF chunk = <<" ", "1", "1">> THEN <<11>>
    ELSE IF chunk = <<" ", " ", "1">> \/ chunk = <<" ", "1">> THEN <<1>>
    ELSE <<>>

\* DisplayWidth for Digit
DigitDisplayWidth == 1

\* the characters \d matches, each at the place of its value plus one
Numerals == <<"0", "1", "2", "3", "4", "5", "6", "7", "8", "9">>

\* FromStr for Digit: the chunk is one numeral, the tile is its value
DigitFromStr(chunk) ==
    IF Len(chunk) = 1 /\ (\E d \in DOMAIN Numerals : Numerals[d] = chunk[1])
    THEN <<(CHOOSE d \in DOMAIN Numerals : Numerals[d] = chunk[1]) - 1>>
    ELSE <<>>

\* Tile::DISPLAY_WIDTH of the tile type
DisplayWidth(ty) ==
    IF ty = "TwoDigits" THEN TwoDigitsDisplayWidth
    ELSE IF ty = "Digit" THEN DigitDisplayWidth
    ELSE BoolDisplayWidth

\* Tile::from_str of the tile type: <<tile>>, or <<>> for an error
FromStr(ty, chunk) ==
    IF ty = "TwoDigits" THEN TwoDigitsFromStr(chunk)
    ELSE IF ty = "Digit" THEN DigitFromStr(chunk)
    ELSE BoolFromStr(chunk)

\* Map::default
MapDefault == [tiles |-> <<>>, width |-> 0, height |-> 0, offset |-> PointDefault]

\* Map::procedural
procedural(w, h, procedure) == procedural_offset(PointDefault, w, h, procedure)

\* Map::new_offset; `default` is Tile::default()
new_offset(off, w, h, default) ==
    [tiles |-> [i \in 1..(w * h) |-> default], width |-> w, height |-> h, offset |-> off]

\* Map::new
new(w, h, default) == new_offset(PointDefault, w, h, default)

bottom_left(self) == Point(low_x(self), low_y(self))
top_left(self) == Point(low_x(self), high_y(self))
bottom_right(self) == Point(high_x(self), low_y(self))
top_right(self) == Point(high_x(self), high_y(self))

\* Map::points and the points of Map::iter: make_index2point over the tile indices
points(self) == [i \in 1..Len(self.tiles) |-> index2point(self, i - 1)]

\* translate that moves the grid along x only
translateAlongX(self, dx, dy) ==
    [self EXCEPT !.offset = Point(self.offset.x + dx, self.offset.y)]

\* Map::translate
translate(self, dx, dy) ==
    [self EXCEPT !.offset = Point(self.offset.x + dx, self.offset.y + dy)]

\* Map::convert_tile_type
convert_tile_type(self) ==
    [tiles |-> [i \in 1..Len(self.tiles) |-> TileInto(self.tiles[i])],
     width |-> self.width, height |-> self.height, offset |-> self.offset]

\* the assignments `dst[pairs[i][1]] = src[pairs[i][2]].clone()`, from the i-th
\* on, each through Index<Point> and IndexMut<Point>; stops at the first panic
RECURSIVE CopyTiles(_, _, _, _)
CopyTiles(dst, src, pairs, i) ==
    IF i > Len(pairs) THEN [panicked |-> FALSE, map |-> dst]
    ELSE IF IndexPanics(src, pairs[i][2]) \/ IndexPanics(dst, pairs[i][1])
    THEN [panicked |-> TRUE, map |-> dst]
    ELSE CopyTiles([dst EXCEPT !.tiles[idx(dst, pairs[i][1]) + 1] = TileAt(src, pairs[i][2])],
                   src, pairs, i + 1)

\* Map::flip_vertical
flip_vertical(self, default) ==
    LET flipped == new_offset(self.offset, self.width, self.height, default)
        w == high_x(self) - low_x(self) + 1
        pairs == [k \in 1..(AsI32(self.height) * w) |->
                    LET y == (k - 1) \div w
                        x == low_x(self) + ((k - 1) % w)
                    IN  <<Point(x, high_y(self) - y), Point(x, low_y(self) + y)>>]
    IN  CopyTiles(flipped, self, pairs, 1)

\* Map::flip_horizontal
flip_horizontal(self, default) ==
    LET flipped == new_offset(self.offset, self.width, self.height, default)
        w == AsI32(self.width)
        h == high_y(self) - low_y(self) + 1
        pairs == [k \in 1..(h * w) |->
                    LET y == low_y(self) + ((k - 1) \div w)
                        x == (k - 1) % w
                    IN  <<Point(high_x(self) - x, y), Point(low_x(self) + x, y)>>]
    IN  CopyTiles(flipped, self, pairs, 1)

\* Point::rotate_left and Point::rotate_right: a quarter turn about the origin
PointRotateLeft(p) == Point(-p.y, p.x)
PointRotateRight(p) == Point(p.y, -p.x)

\* rotate_left that turns the points clockwise, as rotate_right does
rotate_leftClockwise(self, default) ==
    IF self.offset /= PointDefault THEN [panicked |-> TRUE, map |-> self]
    ELSE
    LET rotated == new(self.height, self.width, default)
        rotated_origin == top_left(rotated)
        pts == points(self)
        pairs == [k \in 1..Len(pts) |->
                    <<PointAdd(PointRotateRight(pts[k]), rotated_origin), pts[k]>>]
    IN  CopyTiles(rotated, self, pairs, 1)

\* Map::rotate_left
rotate_left(self, default) ==
    IF self.offset /= PointDefault THEN [panicked |-> TRUE, map |-> self]
    ELSE
    LET rotated == new(self.height, self.width, default)
        rotated_origin == bottom_right(rotated)
        pts == points(self)
        pairs == [k \in 1..Len(pts) |->
                    <<PointAdd(PointRotateLeft(pts[k]), rotated_origin), pts[k]>>]
    IN  CopyTiles(rotated, self, pairs, 1)

\* Map::rotate_right
rotate_right(self, default) ==
    IF self.offset /= PointDefault THEN [panicked |-> TRUE, map |-> self]
    ELSE
    LET rotated == new(self.height, self.width, default)
        rotated_origin == top_left(rotated)
        pts == points(self)
        pairs == [k \in 1..Len(pts) |->
                    <<PointAdd(PointRotateRight(pts[k]), rotated_origin), pts[k]>>]
    IN  CopyTiles(rotated, self, pairs, 1)

\* the rows pushed one after the other into one Vec
RECURSIVE Flatten(_)
Flatten(rows) == IF rows = <<>> THEN <<>> ELSE Head(rows) \o Flatten(Tail(rows))

\* From<&[Row]> without its assertion
RectangularUnchecked(source, w) == TRUE

\* the assertion of From<&[Row]>: "input must be rectangular"
Rectangular(source, w) == \A i \in DOMAIN source : Len(source[i]) = w

\* From<&[Row]> for Map
from_rows(source) ==
    IF Len(source) = 0 THEN [panicked |-> FALSE, map |-> MapDefault]
    ELSE
    LET w == Len(source[1])
    IN  IF ~Rectangular(source, w) THEN [panicked |-> TRUE, map |-> MapDefault]
        ELSE [panicked |-> FALSE,
              map |-> [tiles |-> Flatten(source), width |-> w, height |-> Len(source),
                       offset |-> PointDefault]]

\* DisplayWidth::chunks and Chunks::next: the chunks of `dw` characters of a
\* line; next() gives None as soon as the characters run out
Chunks(line, dw) ==
    [k \in 1..(Len(line) \div dw) |-> SubSeq(line, (k - 1) * dw + 1, k * dw)]

\* lines 607-612: the tiles of one line, up to and including the first chunk
\* that does not parse
RECURSIVE ParseRow(_, _, _, _)
ParseRow(ty, chunks, k, row) ==
    IF k > Len(chunks) THEN [err |-> <<>>, row |-> row]
    ELSE IF FromStr(ty, chunks[k]) = <<>>
    THEN [err |-> <<"TileConversion", chunks[k]>>, row |-> row]
    ELSE ParseRow(ty, chunks, k + 1, Append(row, FromStr(ty, chunks[k])[1]))

\* lines 604-616: the rows of the lines from the i-th on; an empty row is dropped
RECURSIVE ParseLines(_, _, _, _)
ParseLines(ty, lines, i, arr) ==
    IF i > Len(lines) THEN [err |-> <<>>, arr |-> arr]
    ELSE
    LET parsed == ParseRow(ty, Chunks(lines[i], DisplayWidth(ty)), 1, <<>>)
    IN  IF parsed.err /= <<>> THEN [err |-> parsed.err, arr |-> arr]
        ELSE ParseLines(ty, lines, i + 1,
                        IF parsed.row /= <<>> THEN Append(arr, parsed.row) ELSE arr)

\* try_from that checks the rows read so far for rectangularity before it
\* looks at the tile error
try_fromShapeFirst(ty, lines) ==
    LET parsed == ParseLines(ty, lines, 1, <<>>)
        arr == parsed.arr
    IN  IF arr /= <<>> /\ ~(\A i \in DOMAIN arr : Len(arr[i]) = Len(arr[1]))
        THEN [err |-> <<"NotRectangular">>, map |-> MapDefault]
        ELSE IF parsed.err /= <<>> THEN [err |-> parsed.err, map |-> MapDefault]
        ELSE [err |-> <<>>, map |-> from_rows(Reverse(arr)).map]

\* try_from without `arr.reverse()`
try_fromUnreversed(ty, lines) ==
    LET parsed == ParseLines(ty, lines, 1, <<>>)
        arr == parsed.arr
    IN  IF parsed.err /= <<>> THEN [err |-> parsed.err, map |-> MapDefault]
        ELSE IF arr /= <<>> /\ ~(\A i \in DOMAIN arr : Len(arr[i]) = Len(arr[1]))
        THEN [err |-> <<"NotRectangular">>, map |-> MapDefault]
        ELSE [err |-> <<>>, map |-> from_rows(arr).map]

\* Map::try_from for the tile type `ty`, on the lines of the reader
try_from(ty, lines) ==
    LET parsed == ParseLines(ty, lines, 1, <<>>)
        arr == parsed.arr
    IN  IF parsed.err /= <<>> THEN [err |-> parsed.err, map |-> MapDefault]
        ELSE IF arr /= <<>> /\ ~(\A i \in DOMAIN arr : Len(arr[i]) = Len(arr[1]))
        THEN [err |-> <<"NotRectangular">>, map |-> MapDefault]
        ELSE [err |-> <<>>, map |-> from_rows(Reverse(arr)).map]

\* IndexMut<(usize, usize)>: `self[(x, y)] = tile`
index_mut(self, x, y, tile) ==
    IF ~InRange(self, point2index(self, x, y)) THEN [panicked |-> TRUE, map |-> self]
    ELSE [panicked |-> FALSE,
          map |-> [self EXCEPT !.tiles[point2index(self, x, y) + 1] = tile]]

\* IndexMut<Point>: `self[point] = tile`
index_mut_point(self, p, tile) ==
    IF ~PositiveQuadrant(p) THEN [panicked |-> TRUE, map |-> self]
    ELSE index_mut(self, AsUsize(p.x), AsUsize(p.y), tile)

(***************************************************************************)
(* The constructions and operations as steps: a grid is constructed once,  *)
(* then transformed and written any number of times, until a panic.        *)
(***************************************************************************)
Dims == { wh \in (0..MaxArea) \X (0..MaxArea) : wh[1] * wh[2] <= MaxArea }
AnyOffsets == { Point(ox, oy) : ox \in {-MaxOff, 0, MaxOff}, oy \in {-MaxOff, 0, MaxOff} }
SeqsUpTo(S, n) == UNION { [1..k -> S] : k \in 0..n }
\* the inputs of from and try_from: n rows of at most MaxArea \div n items each,
\* rows of different lengths included
Rows(S) == {<<>>} \cup UNION { [1..n -> SeqsUpTo(S, MaxArea \div n)] : n \in 1..MaxArea }
Chars == {"#", ".", "?"}

InitMap ==
    /\ map = MapDefault
    /\ tile_type = "Bool"
    /\ err = <<>>
    /\ op = "none"
    /\ pc = "idle"
    /\ BfsIdle
    /\ NavIdle
    /\ IterIdle
    /\ OtherIdle

\* the step of a constructor or operation `name` whose outcome is `out`
Outcome(name, out) ==
    /\ op' = name
    /\ pc' = IF out.panicked THEN "panicked" ELSE "idle"
    /\ map' = out.map
    /\ args' = <<>>
    /\ UNCHANGED <<tile_type, err, bfsVars, navVars, iter, front, back, otherVars>>

Unconstructed == op = "none" /\ pc = "idle"
Constructed == op /= "none" /\ pc = "idle" /\ err = <<>>

Procedural ==
    /\ Unconstructed
    /\ \E wh \in Dims : \E procedure \in [Rectangle(PointDefault, wh[1], wh[2]) -> Bool] :
         Outcome("procedural",
                 [panicked |-> FALSE, map |-> procedural(wh[1], wh[2], procedure)])

ProceduralOffset ==
    /\ Unconstructed
    /\ \E wh \in Dims, off \in AnyOffsets :
         \E procedure \in [Rectangle(off, wh[1], wh[2]) -> Bool] :
            Outcome("procedural_offset",
                    [panicked |-> FALSE,
                     map |-> procedural_offset(off, wh[1], wh[2], procedure)])

New ==
    /\ Unconstructed
    /\ \E wh \in Dims :
         Outcome("new", [panicked |-> FALSE,
                         map |-> new(wh[1], wh[2], TileDefault(tile_type))])

NewOffset ==
    /\ Unconstructed
    /\ \E wh \in Dims, off \in AnyOffsets :
         Outcome("new_offset",
                 [panicked |-> FALSE,
                  map |-> new_offset(off, wh[1], wh[2], TileDefault(tile_type))])

From ==
    /\ Unconstructed
    /\ \E source \in Rows(Bool) :
         Outcome("from", from_rows(source))

TryFrom ==
    /\ Unconstructed
    /\ \E lines \in Rows(Chars) :
         LET out == try_from(tile_type, lines)
         IN  /\ op' = "try_from"
             /\ map' = out.map
             /\ err' = out.err
             /\ UNCHANGED <<tile_type, pc, bfsVars, navVars, iterVars, otherVars>>

Translate ==
    /\ Constructed
    /\ \E dx \in {-MaxOff, 0, MaxOff}, dy \in {-MaxOff, 0, MaxOff} :
         /\ PointAdd(map.offset, Point(dx, dy)) \in AnyOffsets
         /\ op' = "translate"
         /\ map' = translate(map, dx, dy)
         /\ args' = [dx |-> dx, dy |-> dy]
         /\ UNCHANGED <<tile_type, err, pc, bfsVars, navVars, iter, front, back, otherVars>>

FlipVertical ==
    /\ Constructed
    /\ Outcome("flip_vertical", flip_vertical(map, TileDefault(tile_type)))

FlipHorizontal ==
    /\ Constructed
    /\ Outcome("flip_horizontal", flip_horizontal(map, TileDefault(tile_type)))

RotateLeft ==
    /\ Constructed
    /\ Outcome("rotate_left", rotate_left(map, TileDefault(tile_type)))

RotateRight ==
    /\ Constructed
    /\ Outcome("rotate_right", rotate_right(map, TileDefault(tile_type)))

ConvertTileType ==
    /\ Constructed
    /\ op' = "convert_tile_type"
    /\ map' = convert_tile_type(map)
    /\ tile_type' = NewTile(tile_type)
    /\ args' = <<>>
    /\ UNCHANGED <<err, pc, bfsVars, navVars, iter, front, back, otherVars>>

IndexMutPoint ==
    /\ Constructed
    /\ \E px \in (low_x(map) - 1)..(high_x(map) + 1),
          py \in (low_y(map) - 1)..(high_y(map) + 1),
          tile \in TilesOf(tile_type) :
         Outcome("index_mut", index_mut_point(map, Point(px, py), tile))

IndexMut ==
    /\ Constructed
    /\ \E x \in 0..map.width, y \in 0..map.height, tile \in TilesOf(tile_type) :
         Outcome("index_mut", index_mut(map, x, y, tile))

NextMap ==
    \/ Procedural \/ ProceduralOffset \/ New \/ NewOffset \/ From \/ TryFrom
    \/ Translate \/ FlipVertical \/ FlipHorizontal \/ RotateLeft \/ RotateRight
    \/ ConvertTileType \/ IndexMutPoint \/ IndexMut

SpecMap == InitMap /\ [][NextMap]_vars

(***************************************************************************)
(* Map: the queries that return iterators of points: adjacencies,          *)
(* orthogonal_adjacencies, edge, project.  The adjacency iterators are     *)
(* consumed whole by the call; an Edge and a projection are consumed one   *)
(* next() or next_back() at a time.                                        *)
(***************************************************************************)
\* Direction::reverse
reverse(direction) ==
    CASE direction = "Up" -> "Down"
      [] direction = "Left" -> "Right"
      [] direction = "Down" -> "Up"
      [] direction = "Right" -> "Left"

\* Direction::iter_diag: the pairs (vertical, horizontal)
DirectionIterDiag ==
    << <<"Up", "Left">>, <<"Up", "Right">>, <<"Down", "Left">>, <<"Down", "Right">> >>

\* Map::adjacencies: the orthogonal neighbours chained with the in-bounds
\* diagonal ones, `point + vertical + horizontal`
adjacencies(self, p) ==
    orthogonal_adjacencies(self, p) \o
    SelectSeq([i \in 1..4 |-> Step(Step(p, DirectionIterDiag[i][1]), DirectionIterDiag[i][2])],
              LAMBDA q : in_bounds(self, q))

\* Map::edge
edge(self, direction) ==
    LET ends == CASE direction = "Left" -> <<bottom_left(self), top_left(self), "Up">>
                  [] direction = "Right" -> <<bottom_right(self), top_right(self), "Up">>
                  [] direction = "Down" -> <<bottom_left(self), bottom_right(self), "Right">>
                  [] direction = "Up" -> <<top_left(self), top_right(self), "Right">>
    IN  [from |-> ends[1], to |-> ends[2], direction |-> ends[3], done |-> FALSE]

\* Iterator::next of Edge: the Option returned and the Edge afterwards
edge_next(e) ==
    IF e.done THEN [item |-> <<>>, iter |-> e]
    ELSE [item |-> <<e.from>>,
          iter |-> [e EXCEPT !.from = Step(e.from, e.direction), !.done = (e.from = e.to)]]

\* next_back that never notices it has met the front
edge_next_backNeverDone(e) ==
    IF e.done THEN [item |-> <<>>, iter |-> e]
    ELSE [item |-> <<e.to>>,
          iter |-> [e EXCEPT !.to = Step(e.to, reverse(e.direction))]]

\* DoubleEndedIterator::next_back of Edge
edge_next_back(e) ==
    IF e.done THEN [item |-> <<>>, iter |-> e]
    ELSE [item |-> <<e.to>>,
          iter |-> [e EXCEPT !.to = Step(e.to, reverse(e.direction)), !.done = (e.to = e.from)]]

\* Iterator::size_hint of Edge
size_hint(e) ==
    LET size == manhattan(PointSub(e.to, e.from)) + 1
    IN  <<size, <<size>>>>

\* Map::project: `current` is the item successors() gives next, `flag` is the
\* flag of take_while, set once the predicate has failed
project(self, origin, dx, dy) ==
    [current |-> origin, dx |-> dx, dy |-> dy, flag |-> FALSE]

\* next() of the iterator of Map::project
project_next(self, it) ==
    IF it.flag THEN [item |-> <<>>, iter |-> it]
    ELSE LET point == it.current
             advanced == [it EXCEPT !.current = PointAdd(point, Point(it.dx, it.dy))]
         IN  IF in_bounds(self, point) THEN [item |-> <<point>>, iter |-> advanced]
             ELSE [item |-> <<>>, iter |-> [advanced EXCEPT !.flag = TRUE]]

\* a grid that is queried has at most MaxQueryArea tiles, so that a point
\* with all eight neighbours in bounds exists
MaxQueryArea == 9
QueryDims ==
    { wh \in (0..MaxQueryArea) \X (0..MaxQueryArea) : wh[1] * wh[2] <= MaxQueryArea }

\* at most MaxYield items of an iterator are recorded
MaxYield == MaxQueryArea + 1

\* the points a query is asked about: the grid and `margin` points around it
Around(self, margin) ==
    { Point(px, py) : px \in (low_x(self) - margin)..(high_x(self) + margin),
                      py \in (low_y(self) - margin)..(high_y(self) + margin) }

\* the dx and dy of a projection
Deltas == {-1, 0, 1, 2}

InitQuery ==
    /\ \E wh \in QueryDims, off \in Offsets :
         map = new_offset(off, wh[1], wh[2], TileDefault("Bool"))
    /\ tile_type = "Bool"
    /\ err = <<>>
    /\ op = "none"
    /\ pc = "idle"
    /\ BfsIdle
    /\ NavIdle
    /\ IterIdle
    /\ OtherIdle

\* the queries borrow the grid immutably and leave no trace in it: one query
\* is followed per grid
NoQuery == op = "none" /\ pc = "idle"

\* the step of a query that consumes its iterator whole
Collected(name, arguments, items) ==
    /\ op' = name
    /\ pc' = "idle"
    /\ args' = arguments
    /\ iter' = <<>>
    /\ front' = items
    /\ back' = <<>>
    /\ UNCHANGED <<mapVars, bfsVars, navVars, otherVars>>

\* the step of a query that returns the iterator `it`
Returned(name, arguments, it) ==
    /\ op' = name
    /\ pc' = "iterating"
    /\ args' = arguments
    /\ iter' = it
    /\ front' = <<>>
    /\ back' = <<>>
    /\ UNCHANGED <<mapVars, bfsVars, navVars, otherVars>>

OrthogonalAdjacencies ==
    /\ NoQuery
    /\ \E p \in Around(map, 2) :
        Collected("orthogonal_adjacencies", [point |-> p], orthogonal_adjacencies(map, p))

Adjacencies ==
    /\ NoQuery
    /\ \E p \in Around(map, 2) :
        Collected("adjacencies", [point |-> p], adjacencies(map, p))

Edge ==
    /\ NoQuery
    /\ \E direction \in Direction :
        Returned("edge", [direction |-> direction], edge(map, direction))

\* one call of next() or next_back() on the Edge, with outcome `out`
EdgeCall(out) ==
    /\ op = "edge"
    /\ pc \in {"iterating", "exhausted"}
    /\ Len(front) + Len(back) < MaxYield
    /\ iter' = out.iter
    /\ pc' = IF out.item = <<>> THEN "exhausted" ELSE "iterating"
    /\ UNCHANGED <<mapVars, op, args, bfsVars, navVars, otherVars>>

EdgeNext ==
    LET out == edge_next(iter)
    IN  /\ EdgeCall(out)
        /\ front' = front \o out.item
        /\ back' = back

EdgeNextBack ==
    LET out == edge_next_back(iter)
    IN  /\ EdgeCall(out)
        /\ front' = front
        /\ back' = back \o out.item

Project ==
    /\ NoQuery
    /\ \E origin \in Around(map, 1), dx \in Deltas, dy \in Deltas :
        Returned("project", [origin |-> origin, dx |-> dx, dy |-> dy],
                 project(map, origin, dx, dy))

ProjectNext ==
    /\ op = "project"
    /\ pc \in {"iterating", "exhausted"}
    /\ LET out == project_next(map, iter)
       IN  /\ iter' = out.iter
           /\ pc' = IF out.item = <<>> THEN "exhausted" ELSE "iterating"
           /\ front' = IF Len(front) < MaxYield THEN front \o out.item ELSE front
    /\ UNCHANGED <<mapVars, op, args, back, bfsVars, navVars, otherVars>>

NextQuery ==
    \/ OrthogonalAdjacencies \/ Adjacencies
    \/ Edge \/ EdgeNext \/ EdgeNextBack
    \/ Project \/ ProjectNext

SpecQuery == InitQuery /\ [][NextQuery]_vars

(***************************************************************************)
(* Map::try_from on its own: the text of a grid of Bool or of TwoDigits is *)
(* parsed, and the call keeps its input.                                   *)
(***************************************************************************)
\* the characters of a text of TwoDigits
DigitChars == {" ", "1"}

\* the texts parsed for the tile type
Texts(ty) == IF ty = "TwoDigits" THEN Rows(DigitChars) ELSE Rows(Chars)

InitParse ==
    /\ map = MapDefault
    /\ tile_type \in {"Bool", "TwoDigits"}
    /\ err = <<>>
    /\ op = "none"
    /\ pc = "idle"
    /\ BfsIdle
    /\ NavIdle
    /\ IterIdle
    /\ OtherIdle

Parse ==
    /\ Unconstructed
    /\ \E lines \in Texts(tile_type) :
         LET out == try_from(tile_type, lines)
         IN  /\ op' = "try_from"
             /\ map' = out.map
             /\ err' = out.err
             /\ args' = [lines |-> lines]
             /\ UNCHANGED <<tile_type, pc, bfsVars, navVars, iter, front, back, otherVars>>

SpecParse == InitParse /\ [][Parse]_vars

(***************************************************************************)
(* The test of tests/traverse_2021_day_9.rs: the example is read into a    *)
(* grid of Digit, its low points are found, reachable_from is started at   *)
(* each of them with a visitor that counts and never stops, and the three  *)
(* largest counts are multiplied.                                          *)
(***************************************************************************)
\* EXAMPLE.trim(), line by line
EXAMPLE ==
    <<
      <<"2", "1", "9", "9", "9", "4", "3", "2", "1", "0">>,
      <<"3", "9", "8", "7", "8", "9", "4", "9", "2", "1">>,
      <<"9", "8", "5", "6", "7", "8", "9", "8", "9", "2">>,
      <<"8", "7", "6", "7", "8", "9", "6", "7", "8", "9">>,
      <<"9", "8", "9", "9", "9", "6", "5", "6", "7", "8">>
    >>

\* the filter of read_input: every orthogonal neighbour is strictly higher
IsLowPoint(self, p) ==
    LET adj == orthogonal_adjacencies(self, p)
    IN  \A i \in DOMAIN adj : TileAt(self, adj[i]) > TileAt(self, p)

\* sort_unstable, on a Vec of numbers
RECURSIVE SortUnstable(_)
SortUnstable(v) ==
    IF v = <<>> THEN <<>>
    ELSE LET i == CHOOSE i \in DOMAIN v : \A j \in DOMAIN v : v[i] <= v[j]
         IN  <<v[i]>> \o SortUnstable(SubSeq(v, 1, i - 1) \o SubSeq(v, i + 1, Len(v)))

\* iter().rev().take(n).product()
RECURSIVE ProductOfLast(_, _)
ProductOfLast(v, n) ==
    IF n = 0 \/ v = <<>> THEN 1
    ELSE v[Len(v)] * ProductOfLast(SubSeq(v, 1, Len(v) - 1), n - 1)

InitDay9 ==
    /\ map = MapDefault
    /\ tile_type = "Digit"
    /\ err = <<>>
    /\ op = "none"
    /\ pc = "idle"
    /\ BfsIdle
    /\ NavIdle
    /\ IterIdle
    /\ OtherIdle

\* read_input, test line 37: try_from on the trimmed text; on success map.iter()
\* is about to be filtered
ReadInput ==
    /\ op = "none"
    /\ LET out == try_from(tile_type, EXAMPLE)
       IN  /\ err' = out.err
           /\ map' = out.map
           /\ iter' = IF out.err = <<>> THEN [kind |-> "iter", next |-> 0] ELSE <<>>
           /\ pc' = IF out.err = <<>> THEN "running" ELSE "panicked"
    /\ op' = "read_input"
    /\ UNCHANGED <<tile_type, bfsVars, navVars, args, front, back, otherVars>>

\* read_input, test lines 38-44: the next point of map.iter() goes through the
\* filter and, if it passes, into the collected Vec
ReadInputFilter ==
    /\ op = "read_input"
    /\ pc = "running"
    /\ iter.next < Len(map.tiles)
    /\ LET p == index2point(map, iter.next)
       IN  low_points' = IF IsLowPoint(map, p) THEN Append(low_points, p) ELSE low_points
    /\ iter' = [iter EXCEPT !.next = iter.next + 1]
    /\ UNCHANGED <<mapVars, op, pc, bfsVars, navVars, args, front, back, region_sizes,
                   basin_size_product, webVars, listVars, dirVars>>

\* read_input, test lines 44-45: map.iter() is exhausted, the call returns
ReadInputReturn ==
    /\ op = "read_input"
    /\ pc = "running"
    /\ iter.next >= Len(map.tiles)
    /\ iter' = <<>>
    /\ pc' = "returned"
    /\ UNCHANGED <<mapVars, op, bfsVars, navVars, args, front, back, otherVars>>

\* test lines 73-76 and map.rs 812-814, 838-842: reachable_from at the next low
\* point, up to the first test of the loop
Day9ReachableFrom ==
    /\ op \in {"read_input", "size"}
    /\ pc = "returned"
    /\ Len(region_sizes) < Len(low_points)
    /\ start' = low_points[Len(region_sizes) + 1]
    /\ queue' = <<low_points[Len(region_sizes) + 1]>>
    /\ visited' = [i \in 1..Len(map.tiles) |-> FALSE]
    /\ visits' = <<>>
    /\ halted' = FALSE
    /\ op' = "reachable_from_ctx"
    /\ pc' = "running"
    /\ UNCHANGED <<mapVars, navVars, iterVars, otherVars>>

\* one iteration of the loop with the visitor of the test, which returns false
Day9Step == BfsStep /\ halted' = FALSE

\* test lines 72-77: the closure of `map` returns the `size` its visitor counted
Day9Size ==
    /\ op = "reachable_from_ctx"
    /\ pc = "returned"
    /\ region_sizes' = Append(region_sizes, Len(visits))
    /\ op' = "size"
    /\ UNCHANGED <<mapVars, pc, bfsVars, navVars, iterVars, low_points,
                   basin_size_product, webVars, listVars, dirVars>>

\* test lines 80-81: the sizes are sorted and the three largest multiplied
Day9Product ==
    /\ op \in {"read_input", "size"}
    /\ pc = "returned"
    /\ Len(region_sizes) = Len(low_points)
    /\ region_sizes' = SortUnstable(region_sizes)
    /\ basin_size_product' = ProductOfLast(SortUnstable(region_sizes), 3)
    /\ op' = "test_example_finds_region_without_overflow"
    /\ UNCHANGED <<mapVars, pc, bfsVars, navVars, iterVars, low_points, webVars, listVars,
                   dirVars>>

NextDay9 ==
    \/ ReadInput \/ ReadInputFilter \/ ReadInputReturn
    \/ Day9ReachableFrom \/ Day9Step \/ BfsReturn \/ Day9Size \/ Day9Product

SpecDay9 == InitDay9 /\ [][NextDay9]_vars

(***************************************************************************)
(* Direction: a caller holds a Direction, turns it, asks for its deltas    *)
(* and converts a Point back into a Direction.                             *)
(***************************************************************************)
\* Direction::turn_right
turn_right(d) ==
    CASE d = "Up" -> "Right"
      [] d = "Right" -> "Down"
      [] d = "Down" -> "Left"
      [] d = "Left" -> "Up"

\* a turn_left that turns the way turn_right does
turn_leftClockwise(d) == turn_right(d)

\* Direction::turn_left
turn_left(d) ==
    CASE d = "Up" -> "Left"
      [] d = "Left" -> "Down"
      [] d = "Down" -> "Right"
      [] d = "Right" -> "Up"

\* TryFrom<Point> for Direction: <<direction>>, or <<>> for Err(())
DirectionTryFrom(value) ==
    IF value = Point(0, 1) THEN <<"Up">>
    ELSE IF value = Point(0, -1) THEN <<"Down">>
    ELSE IF value = Point(1, 0) THEN <<"Right">>
    ELSE IF value = Point(-1, 0) THEN <<"Left">>
    ELSE <<>>

\* the calls a caller makes in a row
MaxTurns == 4

\* the Points handed to try_from
UnitSquare == { Point(x, y) : x, y \in {-1, 0, 1} }

InitDirection ==
    /\ map = MapDefault
    /\ tile_type = "Traversable"
    /\ err = <<>>
    /\ op = "none"
    /\ pc = "idle"
    /\ BfsIdle
    /\ NavIdle
    /\ iter = <<>>
    /\ front = <<>>
    /\ back = <<>>
    /\ TestIdle
    /\ WebIdle
    /\ ListIdle
    /\ facing \in Direction
    /\ args = [self |-> facing]
    /\ turns = <<>>
    /\ delta = <<>>

\* a call of `name` that leaves the Direction `d` with the caller
Turned(name, d) ==
    /\ facing \in Direction
    /\ Len(turns) < MaxTurns
    /\ facing' = d
    /\ turns' = Append(turns, name)
    /\ op' = name
    /\ pc' = "returned"
    /\ UNCHANGED <<mapVars, bfsVars, navVars, iterVars, testVars, webVars, listVars, delta>>

TurnRight == facing \in Direction /\ Turned("turn_right", turn_right(facing))

TurnLeft == facing \in Direction /\ Turned("turn_left", turn_left(facing))

ReverseCall == facing \in Direction /\ Turned("reverse", reverse(facing))

\* Direction::deltas on the Direction held
DeltasCall ==
    /\ facing \in Direction
    /\ delta' = deltas(facing)
    /\ op' = "deltas"
    /\ pc' = "returned"
    /\ UNCHANGED <<mapVars, bfsVars, navVars, iterVars, testVars, webVars, listVars,
                   facing, turns>>

\* Direction::try_from(value); the result replaces the Direction held, and the
\* calls on it are counted anew
TryFromPoint ==
    /\ facing \in Direction
    /\ \E value \in UnitSquare :
         /\ delta' = value
         /\ facing' = IF DirectionTryFrom(value) = <<>> THEN "Err"
                       ELSE DirectionTryFrom(value)[1]
    /\ args' = [self |-> facing']
    /\ turns' = <<>>
    /\ op' = "try_from_point"
    /\ pc' = "returned"
    /\ UNCHANGED <<mapVars, bfsVars, navVars, iter, front, back, testVars, webVars,
                   listVars>>

NextDirection == TurnRight \/ TurnLeft \/ ReverseCall \/ DeltasCall \/ TryFromPoint

SpecDirection == InitDirection /\ [][NextDirection]_vars

(***************************************************************************)
(* website::get_input: the input files on disk, the throttle file, the     *)
(* clock and the requests that reach the server.  Times are in seconds.    *)
(***************************************************************************)
\* Duration::seconds(900) of update_throttle_file
ThrottleSeconds == 900

\* the clock moves in thirds of the throttle window
ClockStep == ThrottleSeconds \div 3

\* the clock steps of a run
MaxClockSteps == 6

\* the days whose input is asked for are 1..MaxDay
MaxDay == 2

\* the requests of a run
MaxRequests == 3

\* website::throttle: "Ok", or "Throttled" while now_utc() < dl_available; a
\* throttle file that cannot be read is no throttle
throttle(clock, file) ==
    IF file = <<>> THEN "Ok"
    ELSE IF clock < file[1] THEN "Throttled"
    ELSE "Ok"

\* website::update_throttle_file, best effort: `written` is whether
\* std::fs::write succeeded
update_throttle_file(clock, file, written) ==
    IF written THEN <<clock + ThrottleSeconds>> ELSE file

\* how a call that gets past the throttle can end: the errors of lines 67, 76,
\* 78, 82/86 and 87, and Ok
Endings == {"ClientBuilder", "RequestingInput", "ResponseStatus", "Io", "Downloading", "Ok"}

\* lines 69-78: the request has gone to the server
Sent(ending) == ending /= "ClientBuilder"

\* line 86: File::create has made the input file
Created(ending) == ending \in {"Downloading", "Ok"}

InitWeb ==
    /\ map = MapDefault
    /\ tile_type = "Traversable"
    /\ err = <<>>
    /\ op = "none"
    /\ pc = "idle"
    /\ BfsIdle
    /\ NavIdle
    /\ IterIdle
    /\ OtherIdle

\* time passes between two calls
Elapse ==
    /\ now < MaxClockSteps * ClockStep
    /\ now' = now + ClockStep
    /\ UNCHANGED <<mapVars, op, pc, bfsVars, navVars, iterVars, testVars, input_files,
                   throttle_file, requests, result, listVars, dirVars>>

\* website::get_input(config, year, day)
GetInput ==
    /\ Len(requests) < MaxRequests
    /\ \E day \in 1..MaxDay :
         /\ args' = [day |-> day]
         /\ IF day \in input_files
            THEN /\ result' = "Ok"
                 /\ UNCHANGED <<input_files, throttle_file, requests>>
            ELSE IF throttle(now, throttle_file) = "Throttled"
            THEN /\ result' = "Throttled"
                 /\ UNCHANGED <<input_files, throttle_file, requests>>
            ELSE \E ending \in Endings, written \in BOOLEAN :
                 /\ result' = ending
                 /\ requests' = IF Sent(ending) THEN Append(requests, now) ELSE requests
                 /\ input_files' = IF Created(ending) THEN input_files \cup {day}
                                   ELSE input_files
                 /\ throttle_file' = IF ending = "Ok"
                                     THEN update_throttle_file(now, throttle_file, written)
                                     ELSE throttle_file
    /\ op' = "get_input"
    /\ pc' = "returned"
    /\ UNCHANGED <<mapVars, bfsVars, navVars, iter, front, back, testVars, now, listVars,
                   dirVars>>

NextWeb == Elapse \/ GetInput

SpecWeb == InitWeb /\ [][NextWeb]_vars

(***************************************************************************)
(* data_structures::LinkedList and its Cursor.  The heap `nodes` maps the  *)
(* address of every allocated Node to its fields; a Cursor is its `ptr`    *)
(* together with the list and the heap it borrows.                         *)
(***************************************************************************)
\* the heap holds at most MaxNodes nodes
MaxNodes == 4

\* the elements pushed and inserted are 1..MaxElement
MaxElement == 2

\* Node::into_ptr: the address Box::new gives, the lowest one that is free
into_ptr(heap) == CHOOSE a \in 1..(MaxNodes + 1) : a \notin DOMAIN heap /\
                                                     \A b \in 1..(a - 1) : b \in DOMAIN heap

\* Node::new
NodeNew(item) == [item |-> item, next |-> None, prev |-> None]

\* the heap with the node at `a` written
Store(heap, a, node) == [b \in DOMAIN heap \cup {a} |-> IF b = a THEN node ELSE heap[b]]

\* the heap after Box::from_raw(a) is dropped
Free(heap, a) == [b \in DOMAIN heap \ {a} |-> heap[b]]

\* Node::len from the node at `ptr`: the nodes along the next links; `fuel`
\* ends the walk on a heap whose links go round
RECURSIVE NodeLen(_, _, _)
NodeLen(heap, ptr, fuel) ==
    IF ptr = None \/ fuel = 0 THEN 0 ELSE 1 + NodeLen(heap, heap[ptr].next, fuel - 1)

\* LinkedList::count
count(heap, list) == NodeLen(heap, list.front, MaxNodes + 1)

\* LinkedList::len: its debug assertion and the value returned
len(heap, list) == [panicked |-> list.len /= count(heap, list), value |-> list.len]

\* LinkedList::is_empty
is_empty(heap, list) == len(heap, list).value = 0

\* LinkedList::iter, collected: the items along the next links from `ptr`
RECURSIVE IterFrom(_, _, _)
IterFrom(heap, ptr, fuel) ==
    IF ptr = None \/ fuel = 0 THEN <<>>
    ELSE <<heap[ptr].item>> \o IterFrom(heap, heap[ptr].next, fuel - 1)

ListIter(heap, list) == IterFrom(heap, list.front, MaxNodes + 1)

\* Cursor::new
CursorNew(heap, list, ptr) == [nodes |-> heap, ll |-> list, ptr |-> ptr]

\* LinkedList::cursor_front
cursor_front(heap, list) == CursorNew(heap, list, list.front)

\* LinkedList::cursor_back
cursor_back(heap, list) == CursorNew(heap, list, list.back)

\* Cursor::advance
advance(self) ==
    [self EXCEPT !.ptr = IF self.ptr = None THEN None ELSE self.nodes[self.ptr].next]

\* Cursor::retreat
retreat(self) ==
    [self EXCEPT !.ptr = IF self.ptr = None THEN None ELSE self.nodes[self.ptr].prev]

\* Cursor::seek_forward: advance until n steps are made or the cursor is on no item
RECURSIVE seek_forward(_, _)
seek_forward(self, n) ==
    IF n = 0 THEN self
    ELSE IF advance(self).ptr = None THEN advance(self)
    ELSE seek_forward(advance(self), n - 1)

\* Cursor::seek_backward
RECURSIVE seek_backward(_, _)
seek_backward(self, n) ==
    IF n = 0 THEN self
    ELSE IF retreat(self).ptr = None THEN retreat(self)
    ELSE seek_backward(retreat(self), n - 1)

\* Cursor::take: the cursor after the call and the Option returned
take(self) ==
    IF self.ptr = None THEN [cursor |-> self, item |-> <<>>]
    ELSE
    LET node == self.nodes[self.ptr]
        freed == Free(self.nodes, self.ptr)
        relinked ==
            [a \in DOMAIN freed |->
                [freed[a] EXCEPT
                    !.prev = IF a = node.next THEN node.prev ELSE @,
                    !.next = IF a = node.prev THEN node.next ELSE @]]
    IN  [cursor |->
            [nodes |-> relinked,
             ll |-> [front |-> IF node.prev = None THEN node.next ELSE self.ll.front,
                     back |-> IF node.next = None THEN node.prev ELSE self.ll.back,
                     len |-> self.ll.len - 1],
             ptr |-> IF node.next /= None THEN node.next ELSE node.prev],
         item |-> <<node.item>>]

\* Cursor::insert_after
insert_after(self, element) ==
    LET new_node_ptr == into_ptr(self.nodes)
    IN  IF self.ptr = None
        THEN [nodes |-> Store(self.nodes, new_node_ptr, NodeNew(element)),
              ll |-> [front |-> new_node_ptr, back |-> new_node_ptr,
                      len |-> self.ll.len + 1],
              ptr |-> new_node_ptr]
        ELSE
        LET cur == self.nodes[self.ptr]
            new_node == [item |-> element, prev |-> self.ptr, next |-> cur.next]
            linked ==
                [a \in DOMAIN self.nodes |->
                    [self.nodes[a] EXCEPT
                        !.prev = IF a = cur.next THEN new_node_ptr ELSE @,
                        !.next = IF a = self.ptr THEN new_node_ptr ELSE @]]
        IN  [nodes |-> Store(linked, new_node_ptr, new_node),
             ll |-> [front |-> self.ll.front,
                     back |-> IF cur.next = None THEN new_node_ptr ELSE self.ll.back,
                     len |-> self.ll.len + 1],
             ptr |-> self.ptr]

\* an insert_before that puts the element behind the cursor
insert_beforeBehind(self, element) == insert_after(self, element)

\* Cursor::insert_before
insert_before(self, element) ==
    LET new_node_ptr == into_ptr(self.nodes)
    IN  IF self.ptr = None
        THEN [nodes |-> Store(self.nodes, new_node_ptr, NodeNew(element)),
              ll |-> [front |-> new_node_ptr, back |-> new_node_ptr,
                      len |-> self.ll.len + 1],
              ptr |-> new_node_ptr]
        ELSE
        LET cur == self.nodes[self.ptr]
            new_node == [item |-> element, next |-> self.ptr, prev |-> cur.prev]
            linked ==
                [a \in DOMAIN self.nodes |->
                    [self.nodes[a] EXCEPT
                        !.next = IF a = cur.prev THEN new_node_ptr ELSE @,
                        !.prev = IF a = self.ptr THEN new_node_ptr ELSE @]]
        IN  [nodes |-> Store(linked, new_node_ptr, new_node),
             ll |-> [front |-> IF cur.prev = None THEN new_node_ptr ELSE self.ll.front,
                     back |-> self.ll.back,
                     len |-> self.ll.len + 1],
             ptr |-> self.ptr]

\* LinkedList::push_back
push_back(heap, list, element) == insert_after(cursor_back(heap, list), element)

\* LinkedList::push_front
push_front(heap, list, element) == insert_before(cursor_front(heap, list), element)

\* LinkedList::pop_back
pop_back(heap, list) == take(cursor_back(heap, list))

\* LinkedList::pop_front
pop_front(heap, list) == take(cursor_front(heap, list))

InitList ==
    /\ map = MapDefault
    /\ tile_type = "Traversable"
    /\ err = <<>>
    /\ op = "none"
    /\ pc = "idle"
    /\ BfsIdle
    /\ NavIdle
    /\ IterIdle
    /\ OtherIdle

\* the program runs and a node can still be allocated
CanAllocate == pc /= "panicked" /\ Cardinality(DOMAIN nodes) < MaxNodes

\* a call on the list itself: the cursor, if there was one, is gone; `out` is
\* the cursor the call worked through
ListCall(name, out, item, arguments) ==
    /\ nodes' = out.nodes
    /\ ll' = out.ll
    /\ cursor' = <<>>
    /\ popped' = item
    /\ args' = arguments
    /\ op' = name
    /\ pc' = "returned"
    /\ UNCHANGED <<mapVars, bfsVars, navVars, iter, front, back, testVars, webVars,
                   dirVars>>

\* a call on the live cursor, which `out` is after it
CursorCall(name, out, item, arguments) ==
    /\ nodes' = out.nodes
    /\ ll' = out.ll
    /\ cursor' = <<out.ptr>>
    /\ popped' = item
    /\ args' = arguments
    /\ op' = name
    /\ pc' = "returned"
    /\ UNCHANGED <<mapVars, bfsVars, navVars, iter, front, back, testVars, webVars,
                   dirVars>>

\* the live cursor
Cursor == CursorNew(nodes, ll, cursor[1])

PushBack ==
    /\ CanAllocate
    /\ \E element \in 1..MaxElement :
         ListCall("push_back", push_back(nodes, ll, element), <<>>, [element |-> element])

PushFront ==
    /\ CanAllocate
    /\ \E element \in 1..MaxElement :
         ListCall("push_front", push_front(nodes, ll, element), <<>>, [element |-> element])

PopBack ==
    /\ pc /= "panicked"
    /\ ListCall("pop_back", pop_back(nodes, ll).cursor, pop_back(nodes, ll).item, <<>>)

PopFront ==
    /\ pc /= "panicked"
    /\ ListCall("pop_front", pop_front(nodes, ll).cursor, pop_front(nodes, ll).item, <<>>)

\* LinkedList::len, with its debug assertion
LenCall ==
    /\ pc /= "panicked"
    /\ op' = "len"
    /\ pc' = IF len(nodes, ll).panicked THEN "panicked" ELSE "returned"
    /\ cursor' = <<>>
    /\ args' = <<>>
    /\ UNCHANGED <<mapVars, bfsVars, navVars, iter, front, back, testVars, webVars,
                   nodes, ll, popped, dirVars>>

CursorFront ==
    /\ pc /= "panicked"
    /\ CursorCall("cursor_front", cursor_front(nodes, ll), <<>>, <<>>)

CursorBack ==
    /\ pc /= "panicked"
    /\ CursorCall("cursor_back", cursor_back(nodes, ll), <<>>, <<>>)

\* a cursor is live
OnCursor == pc /= "panicked" /\ cursor /= <<>>

Advance == OnCursor /\ CursorCall("advance", advance(Cursor), <<>>, <<>>)

Retreat == OnCursor /\ CursorCall("retreat", retreat(Cursor), <<>>, <<>>)

SeekForward ==
    /\ OnCursor
    /\ \E n \in 0..MaxNodes :
         CursorCall("seek_forward", seek_forward(Cursor, n), <<>>, [n |-> n])

SeekBackward ==
    /\ OnCursor
    /\ \E n \in 0..MaxNodes :
         CursorCall("seek_backward", seek_backward(Cursor, n), <<>>, [n |-> n])

Take == OnCursor /\ CursorCall("take", take(Cursor).cursor, take(Cursor).item, <<>>)

InsertAfter ==
    /\ OnCursor
    /\ CanAllocate
    /\ \E element \in 1..MaxElement :
         CursorCall("insert_after", insert_after(Cursor, element), <<>>,
                    [element |-> element])

InsertBefore ==
    /\ OnCursor
    /\ CanAllocate
    /\ \E element \in 1..MaxElement :
         CursorCall("insert_before", insert_before(Cursor, element), <<>>,
                    [element |-> element])

\* the list used as a deque
NextDeque == PushBack \/ PushFront \/ PopBack \/ PopFront \/ LenCall

SpecDeque == InitList /\ [][NextDeque]_vars

\* the list and its cursor
NextList ==
    \/ NextDeque
    \/ CursorFront \/ CursorBack \/ Advance \/ Retreat \/ SeekForward \/ SeekBackward
    \/ Take \/ InsertAfter \/ InsertBefore

SpecList == InitList /\ [][NextList]_vars

(***************************************************************************)
(* What the properties are stated against: the grid read by coordinates,   *)
(* and reachability computed by layers of point sets, with no queue, heap  *)
(* or index arithmetic of the program.                                     *)
(***************************************************************************)
\* the tile stored for an in-bounds point, row-major from the offset
RefTile(self, p) ==
    self.tiles[(p.x - self.offset.x) + (p.y - self.offset.y) * self.width + 1]

RefAdjacent(p, q) == manhattan(PointSub(q, p)) = 1

\* the call has ended, by returning or by panicking
Ended(call) == op = call /\ pc \in {"returned", "panicked"}

\* the set of the elements of a sequence
Range(s) == { s[i] : i \in DOMAIN s }

\* Flood fill by layers from `frontier` (at depth k): a point joins the next
\* layer when it is not Obstructed and is adjacent to a point of the frontier
\* that may be stepped out of (a point of `exits`).  The result maps each point
\* reached to its depth.
RECURSIVE RefFlood(_, _, _, _, _)
RefFlood(self, frontier, seen, k, exits) ==
    IF frontier = {} THEN <<>>
    ELSE
    LET next == { q \in PointsOf(self) \ seen :
                    /\ RefTile(self, q) /= "Obstructed"
                    /\ \E p \in frontier \cap exits : RefAdjacent(p, q) }
    IN  [p \in frontier |-> k] @@ RefFlood(self, next, seen \cup next, k + 1, exits)

\* reachable_from: the start if it is not Obstructed, then steps out of Free tiles only
RefReach(self, s) ==
    IF RefTile(self, s) = "Obstructed" THEN <<>>
    ELSE RefFlood(self, {s}, {s}, 0, { p \in PointsOf(self) : RefTile(self, p) = "Free" })

\* navigate: steps out of any tile, into tiles that are not Obstructed
RefRoutes(self, s) == RefFlood(self, {s}, {s}, 0, PointsOf(self))

\* the positions a path goes through from `s`, one per direction of the path
RECURSIVE Replay(_, _)
Replay(s, directions) ==
    IF directions = <<>> THEN <<>>
    ELSE LET q == Step(s, Head(directions))
         IN  <<q>> \o Replay(q, Tail(directions))

(***************************************************************************)
(* Properties of reachable_from_ctx                                        *)
(***************************************************************************)
\* C4: when the visitor never returns true, the points visited by a call of
\* reachable_from_ctx are exactly the start, if it is not Obstructed, and the
\* non-Obstructed points reached from it by steps out of Free tiles; on a grid
\* of Free tiles these are all width * height points.
C4_VisitsExactlyReachable ==
    (Ended("reachable_from_ctx") /\ ~halted) =>
        /\ Range(visits) = DOMAIN RefReach(map, start)
        /\ (\A p \in PointsOf(map) : RefTile(map, p) = "Free") =>
               Cardinality(Range(visits)) = map.width * map.height

\* C4 on the calls that return: the same statement, for the calls that end by
\* returning rather than by panicking
C4_ReturnedVisitsExactlyReachable ==
    (op = "reachable_from_ctx" /\ pc = "returned" /\ ~halted) =>
        /\ Range(visits) = DOMAIN RefReach(map, start)
        /\ (\A p \in PointsOf(map) : RefTile(map, p) = "Free") =>
               Cardinality(Range(visits)) = map.width * map.height

\* C5: in every run, stopped early or not, the visitor is never invoked on an
\* Obstructed tile and at most once on any point.
C5_NoObstructedNoDouble ==
    /\ \A i \in DOMAIN visits : RefTile(map, visits[i]) /= "Obstructed"
    /\ \A i, j \in DOMAIN visits : i /= j => visits[i] /= visits[j]

\* a point visited earlier is dequeued again (fan-in), on a grid that has an
\* Obstructed tile next to a visited point
C5_Witness ==
    /\ op = "reachable_from_ctx"
    /\ Len(visits) >= 4
    /\ \E i \in DOMAIN queue : queue[i] \in Range(visits)
    /\ \E p \in PointsOf(map) :
         /\ RefTile(map, p) = "Obstructed"
         /\ visited[idx(map, p) + 1]

\* C6: once the visitor has returned true, no further point is dequeued and
\* the visitor is not invoked again.
C6_StopIsImmediate == [][halted => (visits' = visits /\ queue' = queue)]_vars

\* the visitor returned true while the queue still held a reachable point
\* that has not been visited
C6_Witness ==
    /\ halted
    /\ pc = "returned"
    /\ \E i \in DOMAIN queue :
         /\ queue[i] \notin Range(visits)
         /\ queue[i] \in DOMAIN RefReach(map, start)

\* C7: the visits are in breadth-first order: a point visited before another
\* is no farther from the start, counting the steps of the shortest route
\* through Free tiles.
C7_BreadthFirstOrder ==
    LET depth == RefReach(map, start)
    IN  \A i, j \in DOMAIN visits :
          i < j => /\ visits[i] \in DOMAIN depth
                   /\ visits[j] \in DOMAIN depth
                   /\ depth[visits[i]] <= depth[visits[j]]

\* a run that has visited points at three different depths, past a fan-in
C7_Witness ==
    /\ op = "reachable_from_ctx"
    /\ Len(visits) >= 5
    /\ RefReach(map, start)[visits[Len(visits)]] >= 3

(***************************************************************************)
(* Properties of navigate_ctx                                              *)
(***************************************************************************)
\* the path returned by the call: the call returned Some(path[1])
ReturnedSome == op = "navigate_ctx" /\ pc = "returned" /\ Len(path) = 1

\* the call returned None
ReturnedNone == op = "navigate_ctx" /\ pc = "returned" /\ path = <<>>

\* C1: when the goal can be reached from the start by steps into tiles that
\* are not Obstructed, navigate_ctx returns Some(path) with the length of the
\* shortest such route; with no Obstructed tile that is the Manhattan distance.
C1_ShortestPath ==
    (Ended("navigate_ctx") /\ to \in DOMAIN RefRoutes(map, from)) =>
        /\ ReturnedSome
        /\ Len(path[1]) = RefRoutes(map, from)[to]
        /\ (\A p \in PointsOf(map) : RefTile(map, p) /= "Obstructed") =>
               Len(path[1]) = manhattan(PointSub(to, from))

\* C1 on the calls that return
C1_ReturnedShortestPath ==
    (op = "navigate_ctx" /\ pc = "returned" /\ to \in DOMAIN RefRoutes(map, from)) =>
        /\ ReturnedSome
        /\ Len(path[1]) = RefRoutes(map, from)[to]
        /\ (\A p \in PointsOf(map) : RefTile(map, p) /= "Obstructed") =>
               Len(path[1]) = manhattan(PointSub(to, from))

\* C2: for start /= goal, navigate_ctx returns None exactly when no route of
\* steps into non-Obstructed tiles leads from the start to the goal.
C2_NoneIffUnreachable ==
    (Ended("navigate_ctx") /\ from /= to) =>
        (ReturnedNone <=> to \notin DOMAIN RefRoutes(map, from))

\* C2 on the calls that return
C2_ReturnedNoneIffUnreachable ==
    (op = "navigate_ctx" /\ pc = "returned" /\ from /= to) =>
        (ReturnedNone <=> to \notin DOMAIN RefRoutes(map, from))

\* C3: replaying a returned path from the start ends on the goal, and every
\* position on the way is in bounds and holds a tile that is not Obstructed.
C3_PathReplays ==
    ReturnedSome =>
        LET positions == Replay(from, path[1])
        IN  /\ (IF positions = <<>> THEN from ELSE positions[Len(positions)]) = to
            /\ \A i \in DOMAIN positions :
                  /\ in_bounds(map, positions[i])
                  /\ RefTile(map, positions[i]) /= "Obstructed"

\* a returned path of at least four steps, longer than the Manhattan distance
\* because Obstructed tiles are in the way
C3_Witness ==
    /\ ReturnedSome
    /\ Len(path[1]) >= 4
    /\ Len(path[1]) > manhattan(PointSub(to, from))
    /\ \E p \in PointsOf(map) : RefTile(map, p) = "Obstructed"

\* C8: a Halt tile is never an intermediate position of a returned path: it
\* can only be the last position, the goal.
C8_HaltOnlyLast ==
    ReturnedSome =>
        LET positions == Replay(from, path[1])
        IN  \A i \in DOMAIN positions :
              (i < Len(positions) /\ in_bounds(map, positions[i])) =>
                  RefTile(map, positions[i]) /= "Halt"

(***************************************************************************)
(* Properties of both searches                                             *)
(***************************************************************************)
\* C9: whatever the offset of the grid, neither search indexes the grid with
\* a point that is out of bounds or has a negative coordinate: no call ends
\* in the panic of Index<Point>, of the tile buffer or of the visited bitset.
C9_NoIndexPanic == pc /= "panicked"

\* C9 on the grids that lie in the positive quadrant
C9_NoIndexPanicInPositiveQuadrant ==
    PositiveQuadrant(map.offset) => pc /= "panicked"

(***************************************************************************)
(* Properties of the grid                                                  *)
(***************************************************************************)
\* C10: after any sequence of constructions and operations the grid has
\* width * height tiles, and iter() and points() enumerate exactly the points
\* of the rectangle offset.x <= x <= offset.x + width - 1, offset.y <= y <=
\* offset.y + height - 1, each once.
C10_GridShape ==
    pc /= "panicked" =>
        /\ Len(map.tiles) = map.width * map.height
        /\ Range(points(map)) = Rectangle(map.offset, map.width, map.height)
        /\ \A i, j \in DOMAIN points(map) : i /= j => points(map)[i] /= points(map)[j]

\* a grid away from the origin, wider than high, that has been flipped
C10_Witness ==
    /\ op = "flip_horizontal"
    /\ pc = "idle"
    /\ map.offset /= PointDefault
    /\ map.width >= 3
    /\ map.height >= 2

\* C11: with offset zero and with a non-zero offset, point2index and
\* index2point are mutually inverse: every in-bounds point p has the index
\* (p.x - offset.x) + (p.y - offset.y) * width and index2point gives p back
\* from it, and every index i in 0..width*height is the index of
\* index2point(i), so no two indices give the same point.
C11_IndexRoundTrip ==
    pc /= "panicked" =>
        /\ \A p \in Rectangle(map.offset, map.width, map.height) :
              /\ idx(map, p) = (p.x - map.offset.x) + (p.y - map.offset.y) * map.width
              /\ index2point(map, idx(map, p)) = p
        /\ \A i \in 0..(map.width * map.height - 1) :
              idx(map, index2point(map, i)) = i
        /\ \A i, j \in 0..(map.width * map.height - 1) :
              index2point(map, i) = index2point(map, j) => i = j

\* a grid left of and below the origin, with several rows and columns, after
\* a tile of it was written through point2index
C11_Witness ==
    /\ op = "index_mut"
    /\ pc = "idle"
    /\ map.offset.x < 0
    /\ map.offset.y < 0
    /\ map.width >= 2
    /\ map.height >= 3

\* C12: for every grid and every point p, in bounds or not,
\* orthogonal_adjacencies(p) yields only in-bounds points, at most 4, in the
\* order Up, Down, Left, Right of p; adjacencies(p) yields at most 8
\* in-bounds points: the orthogonal ones first, then the in-bounds diagonals
\* in the order Up-Left, Up-Right, Down-Left, Down-Right, so it contains
\* every point of orthogonal_adjacencies(p).
C12_Adjacencies ==
    op \in {"orthogonal_adjacencies", "adjacencies"} =>
        LET p == args.point
            inside(q) == q \in Rectangle(map.offset, map.width, map.height)
            orthogonal ==
                SelectSeq(<<Point(p.x, p.y + 1), Point(p.x, p.y - 1),
                            Point(p.x - 1, p.y), Point(p.x + 1, p.y)>>, inside)
            diagonal ==
                SelectSeq(<<Point(p.x - 1, p.y + 1), Point(p.x + 1, p.y + 1),
                            Point(p.x - 1, p.y - 1), Point(p.x + 1, p.y - 1)>>, inside)
        IN  /\ \A i \in DOMAIN front : inside(front[i])
            /\ op = "orthogonal_adjacencies" => front = orthogonal /\ Len(front) <= 4
            /\ op = "adjacencies" =>
                  /\ front = orthogonal \o diagonal
                  /\ Len(front) <= 8
                  /\ Range(orthogonal_adjacencies(map, p)) \subseteq Range(front)

\* all eight neighbours of a point of a grid away from the origin are in bounds
C12_Witness ==
    /\ op = "adjacencies"
    /\ map.offset /= PointDefault
    /\ Len(front) = 8

\* a point outside the grid with a single diagonal neighbour in it
C12_WitnessOutside ==
    /\ op = "adjacencies"
    /\ ~in_bounds(map, args.point)
    /\ Len(front) = 1
    /\ Len(orthogonal_adjacencies(map, args.point)) = 0

\* C13: on a grid with width >= 1 and height >= 1, for every side and every
\* interleaving of next() and next_back() on the Edge of that side, the points
\* yielded are the boundary points of the side (height points for Left and
\* Right, width points for Up and Down), each once: next() yields them from
\* the low end upwards, next_back() from the high end downwards, and once
\* all are yielded both calls return None.
C13_EdgeBothEnds ==
    (op = "edge" /\ map.width >= 1 /\ map.height >= 1) =>
        LET d == args.direction
            n == IF d \in {"Left", "Right"} THEN map.height ELSE map.width
            side == [i \in 1..n |->
                       CASE d = "Left" -> Point(map.offset.x, map.offset.y + i - 1)
                         [] d = "Right" ->
                              Point(map.offset.x + map.width - 1, map.offset.y + i - 1)
                         [] d = "Down" -> Point(map.offset.x + i - 1, map.offset.y)
                         [] d = "Up" ->
                              Point(map.offset.x + i - 1, map.offset.y + map.height - 1)]
            k == Len(front)
            l == Len(back)
        IN  /\ k + l <= n
            /\ \A i \in 1..k : front[i] = side[i]
            /\ \A i \in 1..l : back[i] = side[n + 1 - i]
            /\ pc = "exhausted" => k + l = n
            /\ k + l < n => edge_next(iter).item /= <<>> /\ edge_next_back(iter).item /= <<>>
            /\ k + l = n => edge_next(iter).item = <<>> /\ edge_next_back(iter).item = <<>>

\* an Edge of a grid away from the origin, consumed from both ends until a
\* call returned None
C13_Witness ==
    /\ op = "edge"
    /\ pc = "exhausted"
    /\ map.offset /= PointDefault
    /\ Len(front) >= 2
    /\ Len(back) >= 2

\* C14: for every grid, every origin and every (dx, dy), the origin is the
\* first item project(origin, dx, dy) yields, also when later steps are
\* invalid: the first next() returns Some(origin).
C14_OriginFirst ==
    op = "project" =>
        /\ front /= <<>> => front[1] = args.origin
        /\ pc = "exhausted" => front /= <<>>

\* C14 for the origins that are in bounds
C14_InBoundsOriginFirst ==
    (op = "project" /\ in_bounds(map, args.origin)) =>
        /\ front /= <<>> => front[1] = args.origin
        /\ pc = "exhausted" => front /= <<>>

\* C15: for every grid, origin and step (dx, dy), (0, 0) included, the
\* sequence project(origin, dx, dy) produces is finite.  Its items are
\* in-bounds points a fixed step apart, so a finite one has no more items
\* than the grid has tiles; one with more repeats a point, and from a
\* repeated point the same items follow without end.
C15_ProjectFinite ==
    op = "project" => Len(front) <= map.width * map.height

\* C15 for the steps other than (0, 0)
C15_MovingProjectFinite ==
    (op = "project" /\ (args.dx /= 0 \/ args.dy /= 0)) =>
        /\ Len(front) <= map.width * map.height
        /\ \A i, j \in DOMAIN front : i /= j => front[i] /= front[j]

\* the corner points of a grid
Corners(self) == <<bottom_left(self), top_left(self), bottom_right(self), top_right(self)>>

\* `flipped` is the grid `self` with the same width, height, offset and
\* corners, whose tile at p is the tile of `self` at mirror[p]
Mirrored(self, flipped, mirror) ==
    /\ flipped.width = self.width
    /\ flipped.height = self.height
    /\ flipped.offset = self.offset
    /\ Corners(flipped) = Corners(self)
    /\ Len(flipped.tiles) = Len(self.tiles)
    /\ \A p \in Rectangle(self.offset, self.width, self.height) :
          RefTile(flipped, p) = RefTile(self, mirror[p])

\* what C16 says of one step that flips the grid
FlipStep ==
    LET G == map
        box == Rectangle(G.offset, G.width, G.height)
        default == TileDefault(tile_type)
    IN  /\ op' = "flip_vertical" =>
              /\ pc' /= "panicked"
              /\ Mirrored(G, map', [p \in box |-> Point(p.x, low_y(G) + high_y(G) - p.y)])
              /\ ~flip_vertical(map', default).panicked
              /\ flip_vertical(map', default).map = G
        /\ op' = "flip_horizontal" =>
              /\ pc' /= "panicked"
              /\ Mirrored(G, map', [p \in box |-> Point(low_x(G) + high_x(G) - p.x, p.y)])
              /\ ~flip_horizontal(map', default).panicked
              /\ flip_horizontal(map', default).map = G

\* C16: for all grids G, whatever their offset, flip_vertical(flip_vertical(G))
\* == G and flip_horizontal(flip_horizontal(G)) == G, and each flip returns a
\* grid with the width, height, offset and corner points of G in which the
\* tile at (x, y) is G's tile at (x, low_y + high_y - y) for flip_vertical and
\* at (low_x + high_x - x, y) for flip_horizontal.
C16_Flips == [][FlipStep]_vars

\* C16 for the grids that lie in the positive quadrant
C16_FlipsInPositiveQuadrant == [][PositiveQuadrant(map.offset) => FlipStep]_vars

\* what C17 says of one step that rotates a grid whose offset is (0, 0)
RotateStep ==
    LET G == map
        default == TileDefault(tile_type)
    IN  (op' \in {"rotate_left", "rotate_right"} /\ G.offset = PointDefault) =>
            /\ pc' /= "panicked"
            /\ map'.offset = PointDefault
            /\ map'.width = G.height
            /\ map'.height = G.width
            /\ op' = "rotate_left" =>
                  /\ ~rotate_right(map', default).panicked
                  /\ rotate_right(map', default).map = G
            /\ op' = "rotate_right" =>
                  /\ ~rotate_left(map', default).panicked
                  /\ rotate_left(map', default).map = G

\* C17: for every grid G whose offset is (0, 0), rotate_left(G) and
\* rotate_right(G) are grids with offset (0, 0), width G.height and height
\* G.width, and rotate_right(rotate_left(G)) == G and
\* rotate_left(rotate_right(G)) == G.
C17_Rotations == [][RotateStep]_vars

\* a grid at the origin of three columns and two rows, with tiles of both values,
\* turned left into one of two columns and three rows
C17_Witness ==
    /\ op = "rotate_left"
    /\ pc = "idle"
    /\ map.width = 2
    /\ map.height = 3
    /\ Range(map.tiles) = TilesOf(tile_type)

\* C18: translate(dx, dy) changes only the offset, adding (dx, dy) to it: the
\* tile buffer, width and height are unchanged, and the tile that was at
\* point p before the call is at point p + (dx, dy) after it.
C18_TranslateFrame ==
    [][op' = "translate" =>
         LET d == Point(args'.dx, args'.dy)
         IN  /\ map'.offset = PointAdd(map.offset, d)
             /\ map'.tiles = map.tiles
             /\ map'.width = map.width
             /\ map'.height = map.height
             /\ UNCHANGED <<tile_type, err, pc>>
             /\ \A p \in Rectangle(map.offset, map.width, map.height) :
                   /\ in_bounds(map', PointAdd(p, d))
                   /\ RefTile(map', PointAdd(p, d)) = RefTile(map, p)]_vars

\* a grid with tiles of both values, moved along both axes
C18_Witness ==
    /\ op = "translate"
    /\ args.dx /= 0
    /\ args.dy /= 0
    /\ args.dx /= args.dy
    /\ map.width >= 2
    /\ map.height >= 2
    /\ Range(map.tiles) = TilesOf(tile_type)

(***************************************************************************)
(* Properties of parsing                                                   *)
(***************************************************************************)
\* the x-th (zero-based) fixed-width chunk of a line, read off the text
RefChunk(line, x, dw) == [k \in 1..dw |-> line[x * dw + k]]

\* the line splits into exactly W tiles: W chunks of the display width and
\* nothing more, and each chunk parses
SplitsInto(ty, line, W) ==
    /\ Len(line) = W * DisplayWidth(ty)
    /\ \A x \in 0..(W - 1) : FromStr(ty, RefChunk(line, x, DisplayWidth(ty))) /= <<>>

\* the grid parsed from N lines of W tiles each: offset (0, 0), width W,
\* height N, and at (x, y) the parse of the x-th chunk of line N-1-y
ParsedUpright(ty, lines, W) ==
    LET N == Len(lines)
    IN  /\ err = <<>>
        /\ map.offset = PointDefault
        /\ map.width = W
        /\ map.height = N
        /\ Len(map.tiles) = W * N
        /\ \A x \in 0..(W - 1), y \in 0..(N - 1) :
              RefTile(map, Point(x, y)) =
                  FromStr(ty, RefChunk(lines[N - y], x, DisplayWidth(ty)))[1]

\* C19: parsing N text lines that each split into W tiles yields a grid with
\* offset (0, 0), width W and height N in which the tile at (x, y) is the
\* parse of the x-th chunk of input line N-1-y: the last line becomes row 0,
\* the first line the top row.
C19_ParseOrientation ==
    (op = "try_from" /\ Len(args.lines) >= 1) =>
        \A W \in 0..MaxArea :
            (\A i \in DOMAIN args.lines : SplitsInto(tile_type, args.lines[i], W)) =>
                ParsedUpright(tile_type, args.lines, W)

\* C19 as amended: the same for lines that each split into W >= 1 tiles
C19_ParseOrientationNonEmpty ==
    (op = "try_from" /\ Len(args.lines) >= 1) =>
        \A W \in 1..MaxArea :
            (\A i \in DOMAIN args.lines : SplitsInto(tile_type, args.lines[i], W)) =>
                ParsedUpright(tile_type, args.lines, W)

\* three lines of two tiles, the first line unlike the last
C19_Witness ==
    /\ op = "try_from"
    /\ err = <<>>
    /\ Len(args.lines) = 3
    /\ \A i \in DOMAIN args.lines : SplitsInto(tile_type, args.lines[i], 2)
    /\ args.lines[1] /= args.lines[3]
    /\ map.height = 3

\* the line does not chunk evenly: its character count is not a multiple of
\* the display width of the tile
Uneven(ty, line) == Len(line) % DisplayWidth(ty) /= 0

\* C20: when a grid is parsed from text, a line that fails to chunk evenly
\* yields a per-tile TileConversion error that aborts the whole parse, with
\* the content of the offending cell attached; the leftover characters are
\* never silently discarded.
C20_UnevenLineIsError ==
    (op = "try_from" /\ \E i \in DOMAIN args.lines : Uneven(tile_type, args.lines[i])) =>
        /\ err /= <<>>
        /\ err[1] = "TileConversion"
        /\ map = MapDefault

\* the number of tile substrings of a line: its whole fixed-width chunks
TileCount(ty, line) == Len(line) \div DisplayWidth(ty)

\* the places <<i, x>> of the tile substrings that fail to parse: chunk x
\* (zero-based) of line i
Failing(ty, lines) ==
    { ix \in (DOMAIN lines) \X (0..MaxArea) :
        /\ ix[2] < TileCount(ty, lines[ix[1]])
        /\ FromStr(ty, RefChunk(lines[ix[1]], ix[2], DisplayWidth(ty))) = <<>> }

\* the first place of a set of places in reading order: line by line, left to
\* right
FirstInReadingOrder(places) ==
    CHOOSE ix \in places :
        \A other \in places :
            ix[1] < other[1] \/ (ix[1] = other[1] /\ ix[2] <= other[2])

\* what C21 says of a parse, the rows that have to agree in tile count being
\* the lines `rows`
ParseErrors(rows) ==
    LET ty == tile_type
        lines == args.lines
        bad == Failing(ty, lines)
    IN  /\ err /= <<>> => map = MapDefault
        /\ bad /= {} =>
              LET first == FirstInReadingOrder(bad)
              IN  err = <<"TileConversion",
                          RefChunk(lines[first[1]], first[2], DisplayWidth(ty))>>
        /\ (bad = {} /\ \E i, j \in rows : TileCount(ty, lines[i]) /= TileCount(ty, lines[j])) =>
              err = <<"NotRectangular">>

\* C21: try_from never returns a partial grid: if every tile parses but rows
\* differ in tile count the result is Err(NotRectangular); if any tile
\* substring fails to parse the result is Err(TileConversion) with the first
\* failing substring in reading order, also when earlier rows already have
\* unequal lengths.  A row is a line of the text.
C21_ParseErrors ==
    op = "try_from" => ParseErrors(DOMAIN args.lines)

\* C21 as amended: the rows that have to agree are the lines that hold at
\* least one tile, and when no tile fails and they agree the parse succeeds
C21_ParseErrorsOfNonEmptyRows ==
    op = "try_from" =>
        LET rows == { i \in DOMAIN args.lines : TileCount(tile_type, args.lines[i]) >= 1 }
        IN  /\ ParseErrors(rows)
            /\ (/\ Failing(tile_type, args.lines) = {}
                /\ \A i, j \in rows :
                      TileCount(tile_type, args.lines[i]) = TileCount(tile_type, args.lines[j]))
               => (err = <<>> /\ map.height = Cardinality(rows))

\* a tile of the third line fails after two lines of unequal tile counts
C21_Witness ==
    /\ op = "try_from"
    /\ Len(args.lines) = 3
    /\ Failing(tile_type, args.lines) /= {}
    /\ FirstInReadingOrder(Failing(tile_type, args.lines))[1] = 3
    /\ TileCount(tile_type, args.lines[1]) /= TileCount(tile_type, args.lines[2])
    /\ TileCount(tile_type, args.lines[1]) >= 1
    /\ TileCount(tile_type, args.lines[2]) >= 1
    /\ err /= <<>>

(***************************************************************************)
(* The day 9 example.                                                      *)
(***************************************************************************)
\* the test has run to its end
Day9Done == op = "test_example_finds_region_without_overflow"

\* the low points of the example and the size of the region around each; the
\* first line of the text is the row y = 4
Day9Regions ==
    <<[point |-> Point(1, 4), size |-> 3], [point |-> Point(9, 4), size |-> 9],
      [point |-> Point(2, 2), size |-> 14], [point |-> Point(6, 0), size |-> 9]>>

\* C22: on the example, read_input finds exactly the four low points, the
\* visitor of reachable_from started at them counts 3, 9, 14 and 9 points,
\* and the product of the three largest counts is 1134
C22_Day9GoldenValue ==
    /\ op /= "none" => err = <<>> /\ pc /= "panicked"
    /\ op /= "none" /\ ~(op = "read_input" /\ pc = "running") =>
          /\ Len(low_points) = 4
          /\ Range(low_points) = { Day9Regions[i].point : i \in DOMAIN Day9Regions }
    /\ ~Day9Done =>
          \A i \in DOMAIN region_sizes :
             \E j \in DOMAIN Day9Regions :
                /\ Day9Regions[j].point = low_points[i]
                /\ Day9Regions[j].size = region_sizes[i]
    /\ Day9Done =>
          /\ region_sizes = <<3, 9, 9, 14>>
          /\ basin_size_product = 1134

\* the test has counted four regions and multiplied
C22_Witness == Day9Done /\ Len(region_sizes) = 4 /\ basin_size_product > 0

(***************************************************************************)
(* Direction.                                                              *)
(***************************************************************************)
\* turn_right applied n times
RECURSIVE TurnRightTimes(_, _)
TurnRightTimes(d, n) == IF n = 0 THEN d ELSE TurnRightTimes(turn_right(d), n - 1)

\* the quarter turns to the right a call amounts to in a cyclic group of order 4
QuarterTurns(name) ==
    CASE name = "turn_right" -> 1
      [] name = "reverse" -> 2
      [] name = "turn_left" -> 3

RECURSIVE SumQuarterTurns(_)
SumQuarterTurns(calls) ==
    IF calls = <<>> THEN 0
    ELSE QuarterTurns(Head(calls)) + SumQuarterTurns(Tail(calls))

\* f maps the four directions one-to-one onto the four directions
Bijection(f) ==
    /\ \A d \in Direction : f[d] \in Direction
    /\ \A d, e \in Direction : f[d] = f[e] => d = e

\* C23: turn_left, turn_right and reverse are bijections of the four
\* directions; four turn_right give the identity and fewer do not, turn_left
\* undoes turn_right, reverse is two turn_right and undoes itself; so any
\* sequence of calls leaves the direction its quarter turns, counted modulo
\* 4, give
C23_TurnGroup ==
    facing \in Direction =>
        /\ Bijection([d \in Direction |-> turn_right(d)])
        /\ Bijection([d \in Direction |-> turn_left(d)])
        /\ Bijection([d \in Direction |-> reverse(d)])
        /\ TurnRightTimes(facing, 4) = facing
        /\ \A n \in 1..3 : TurnRightTimes(facing, n) /= facing
        /\ turn_left(turn_right(facing)) = facing
        /\ turn_right(turn_left(facing)) = facing
        /\ reverse(facing) = turn_right(turn_right(facing))
        /\ reverse(reverse(facing)) = facing
        /\ (op \in {"turn_right", "turn_left", "reverse"} =>
               facing = TurnRightTimes(args.self, SumQuarterTurns(turns) % 4))

\* four turn_right in a row have been made
C23_Witness ==
    /\ Len(turns) >= 4
    /\ \A i \in 1..4 : turns[i] = "turn_right"
    /\ op = "turn_right"

\* the mapping as the words "Up, Down, Left, Right, in that order" give it
DeltasInListedOrder(d) ==
    CASE d = "Up" -> Point(0, 1)
      [] d = "Down" -> Point(0, -1)
      [] d = "Left" -> Point(1, 0)
      [] d = "Right" -> Point(-1, 0)

\* C24: deltas maps Up, Down, Left, Right, in that order, to (0,1), (0,-1),
\* (1,0), (-1,0)
C24_Deltas == op = "deltas" => delta = DeltasInListedOrder(facing)

\* C24, amended: deltas maps Up, Down, Right, Left, in that order, to (0,1),
\* (0,-1), (1,0), (-1,0)
C24_DeltasRightIsPlusX ==
    op = "deltas" =>
        /\ facing = "Up" => delta = Point(0, 1)
        /\ facing = "Down" => delta = Point(0, -1)
        /\ facing = "Right" => delta = Point(1, 0)
        /\ facing = "Left" => delta = Point(-1, 0)

\* deltas has been asked of Left
C24_Witness == op = "deltas" /\ facing = "Left" /\ delta = Point(-1, 0)

(***************************************************************************)
(* get_input.                                                              *)
(***************************************************************************)
\* a step that is a call of get_input
GetInputStep == op' = "get_input" /\ now' = now

\* the call is made less than 15 minutes after a request was sent
InWindow == \E i \in DOMAIN requests : now - requests[i] < ThrottleSeconds

\* no two requests of the log are less than 15 minutes apart
Spaced(log) ==
    \A i, j \in DOMAIN log : i < j => log[j] - log[i] >= ThrottleSeconds

\* C25: requests to the server are at least 15 minutes apart whether they
\* succeed or fail, a call inside the window for a file that does not exist
\* returns Err(Throttled) and sends nothing, and a call for a file that exists
\* returns Ok and sends nothing
C25_Throttle ==
    [][GetInputStep =>
         /\ Spaced(requests')
         /\ (args'.day \notin input_files /\ InWindow =>
                result' = "Throttled" /\ requests' = requests)
         /\ (args'.day \in input_files =>
                result' = "Ok" /\ requests' = requests)]_vars

(***************************************************************************)
(* LinkedList.                                                             *)
(***************************************************************************)
\* the elements of the list from front to back, as iter() yields them
Items == ListIter(nodes, ll)

\* the nodes a walk along the next links from `ptr` passes
RECURSIVE Linked(_, _, _)
Linked(heap, ptr, fuel) ==
    IF ptr = None \/ fuel = 0 THEN {}
    ELSE {ptr} \cup Linked(heap, heap[ptr].next, fuel - 1)

\* C26: used through push_front, push_back, pop_front and pop_back alone, the
\* list is a deque: a push puts its element at its end of the sequence iter()
\* yields, a pop returns and removes the element at its end of that sequence
\* (None, and no change, when it is empty), len() never fails its assertion
\* and is the number of pushes less the number of successful pops, and
\* is_empty() holds exactly when that sequence is empty
C26_Deque ==
    [][/\ pc' /= "panicked"
       /\ len(nodes', ll').value = Len(Items')
       /\ is_empty(nodes', ll') <=> Items' = <<>>
       /\ op' = "push_front" =>
             /\ Items' = <<args'.element>> \o Items
             /\ ll'.len = ll.len + 1
       /\ op' = "push_back" =>
             /\ Items' = Append(Items, args'.element)
             /\ ll'.len = ll.len + 1
       /\ op' = "pop_front" =>
             IF Items = <<>>
             THEN popped' = <<>> /\ Items' = <<>> /\ ll'.len = ll.len
             ELSE popped' = <<Head(Items)>> /\ Items' = Tail(Items) /\ ll'.len = ll.len - 1
       /\ op' = "pop_back" =>
             IF Items = <<>>
             THEN popped' = <<>> /\ Items' = <<>> /\ ll'.len = ll.len
             ELSE /\ popped' = <<Items[Len(Items)]>>
                  /\ Items' = SubSeq(Items, 1, Len(Items) - 1)
                  /\ ll'.len = ll.len - 1
       /\ op' = "len" => Items' = Items /\ ll'.len = ll.len]_vars

\* a pop at the back has returned an element of a list pushed at both ends,
\* and two elements are left
C26_Witness ==
    /\ op = "pop_back"
    /\ popped /= <<>>
    /\ Len(Items) = 2
    /\ Items[1] /= Items[2]

\* C29: the stored len is the number of nodes reached from front along the
\* next links, len() does not fail its assertion, and every node allocated
\* and not taken is among them
C29_LenIsCount ==
    /\ ll.len = count(nodes, ll)
    /\ pc /= "panicked"
    /\ DOMAIN nodes = Linked(nodes, ll.front, MaxNodes + 1)

(***************************************************************************)
(* The open set of navigate_ctx.                                           *)
(***************************************************************************)
\* f = g + h of an open node: the steps from the start it was pushed with and
\* the Manhattan distance from its position to the goal
FScore(node) == node.cost + manhattan(PointSub(to, node.position))

\* `node` is first among `open` by f ascending, ties broken by the order of
\* Point one way or the other
FirstByF(node, open) ==
    /\ \A m \in open : FScore(node) <= FScore(m)
    /\ LET ties == { m \in open : FScore(m) = FScore(node) }
       IN  \/ \A m \in ties : PointCmp(node.position, m.position) <= 0
           \/ \A m \in ties : PointCmp(node.position, m.position) >= 0

\* C27: the node an iteration of navigate_ctx pops is one of the smallest f
\* among the open nodes, ties broken by the order of Point
C27_PopsSmallestF ==
    [][op = "navigate_ctx" /\ pc = "running" /\ open_set /= {} =>
         \A node \in open_set \ open_set' : FirstByF(node, open_set)]_vars

(***************************************************************************)
(* Termination of the searches.                                            *)
(***************************************************************************)
\* a search has been called and has not ended
Searching == pc = "running"

\* the search has ended, by returning or by a panic
SearchEnded == pc \in {"returned", "panicked"}

\* the bits of the visited bitvec that are not set
Unvisited(vis) == Cardinality({ i \in DOMAIN vis : ~vis[i] })

\* the recorded costs of the positions of the grid, u32::MAX where none is
\* recorded, added up
RECURSIVE CostSum(_, _)
CostSum(costs, positions) ==
    IF positions = {} THEN 0
    ELSE LET p == CHOOSE q \in positions : TRUE
         IN  (IF p \in DOMAIN costs THEN costs[p] ELSE U32Max)
             + CostSum(costs, positions \ {p})

\* what an iteration of the running search has left to do: for the walk the
\* unvisited bits, then the queued points; for the path search the recorded
\* costs, then the open nodes
Measure ==
    IF op = "reachable_from_ctx" THEN <<Unvisited(visited), Len(queue)>>
    ELSE <<CostSum(cheapest_path_cost, PointsOf(map)), Cardinality(open_set)>>

\* a < b in the lexicographic order of pairs
LexLess(a, b) == a[1] < b[1] \/ (a[1] = b[1] /\ a[2] < b[2])

RECURSIVE Remaining(_, _)
Remaining(e, fuel) ==
    IF fuel = 0 \/ edge_next(e).item = <<>> THEN 0
    ELSE 1 + Remaining(edge_next(e).iter, fuel - 1)

\* C30: in every state of an Edge, exhausted or not, size_hint() is
\* (n, Some(n)) for the number n of points the Edge will still yield
C30_EdgeExactSize ==
    op = "edge" =>
        size_hint(iter) = <<Remaining(iter, MaxYield), <<Remaining(iter, MaxYield)>>>>


====
